---- MODULE Spec2Model ----
(***************************************************************************)
(* Skill Forge: the teacher session (teacher.py) with the pieces of the    *)
(* discovery and corpus modules it drives (search_for_gap,                  *)
(* add_pages_to_corpus, load_corpus_as_context), the shadow validator, and  *)
(* the life of a corpus directory (corpus.py: build_corpus,                 *)
(* add_pages_to_corpus, load_corpus_as_context).                            *)
(*                                                                          *)
(* Strings are sequences of tokens.  A token is an indivisible piece of    *)
(* text: a blank, a word, one of the analyzer's verdict prefixes, or a      *)
(* whole fenced code block.  strip(), startswith() and the slices of the    *)
(* source are computed on these sequences.  An optional value (None or a    *)
(* value) is a sequence of length 0 or 1.                                   *)
(***************************************************************************)
EXTENDS Integers, Sequences, FiniteSets, TLC

VARIABLES
    max_attempts,   \* argument of run_teacher_session
    attempt,        \* the loop variable of run_teacher_session (0 before the loop)
    pc,             \* position inside run_teacher_session
    corpus_context, \* the parts of the context loaded for the current attempt
    response,       \* local `response`: the content of the last first-pass response
    trace,          \* local list `trace`
    gaps_filled,    \* local list `gaps_filled`
    trace_entry,    \* local dict `trace_entry` of the running attempt
    solution,       \* local `solution` (the claimed solution under analysis)
    outcome,        \* local `outcome`, an optional AttemptOutcome
    manifest,       \* manifest.json of the corpus directory
    files,          \* the page files of the corpus directory: file name -> content
    model_calls,    \* number of first-pass client.messages.create calls so far
    analysis_calls, \* number of second-pass (_run_analysis) calls so far
    gap_searches,   \* the arguments search_for_gap was called with, in order
    enrich_calls,   \* number of add_pages_to_corpus calls so far
    gap_sources,    \* local `gap_sources`, the result of the last search_for_gap
    raised,         \* name of the exception that ended the session, "" if none
    returned,       \* the TeacherResult returned, an optional value
    cpc,            \* the corpus directory: "new" (not built), "built" or "failed"
    build_args,     \* the arguments of the build_corpus call, an optional value
    build_raised,   \* the message of the CorpusBuildError of build_corpus, "" if none
    crawl_log,      \* the crawl_url calls build_corpus issued, in order
    last_op,        \* the last corpus operation run on the directory, with its result
    ops,            \* number of corpus operations run on the built directory
    pending,        \* the file writes a running corpus operation has still to make
    last_call       \* the last call of a function of the package made on its own:
                    \* its name, its arguments and its result

vars == <<max_attempts, attempt, pc, corpus_context, response, trace, gaps_filled, trace_entry, solution,
          outcome, manifest, files, model_calls, analysis_calls, gap_searches,
          enrich_calls, gap_sources, raised, returned,
          cpc, build_args, build_raised, crawl_log, last_op, ops, pending, last_call>>

\* the state of the teacher session and the bookkeeping of the corpus operations
tvars == <<max_attempts, attempt, pc, corpus_context, response, trace, gaps_filled, trace_entry, solution,
           outcome, model_calls, analysis_calls, gap_searches, enrich_calls, gap_sources,
           raised, returned>>
cvars == <<cpc, build_args, build_raised, crawl_log, last_op, ops, pending>>
lvars == <<last_call>>

(***************************************************************************)
(* Bounds                                                                   *)
(***************************************************************************)
MaxAttempts == 2
\* the number of operations that change a built corpus directory
MaxOps == 2
\* the length of the source lists handed to a function called on its own
MaxSources == 3
\* the length of the outputs handed to the validators
MaxOutputLen == 2
\* the largest max_seeds of discover_sources_from_task
MaxSeeds == 2
\* the largest `retries` firecrawl_search.run is called with
MaxRetries == 2

(***************************************************************************)
(* Tokens                                                                   *)
(***************************************************************************)
SP == " "
Q == "q"
STRIPE == "stripe"
COMPLETE == "COMPLETE:"
INCOMPLETE == "INCOMPLETE:"
AMBIGUOUS == "AMBIGUOUS:"
PY_OK == "[python block, valid]"
PY_BAD == "[python block, syntax error]"
JS_BAD == "[js block, import path with a blank]"
BASH_OK == "[bash block, valid]"
BASH_BAD == "[bash block, syntax error]"
TEXT_BLOCK == "[block without language]"
TODO == "TODO"
PIP_BAD == "pip install <package>"

None == <<>>
Some(x) == <<x>>

RECURSIVE LStrip(_)
LStrip(s) == IF s # <<>> /\ Head(s) = SP THEN LStrip(Tail(s)) ELSE s

RECURSIVE RStrip(_)
RStrip(s) == IF s # <<>> /\ s[Len(s)] = SP THEN RStrip(SubSeq(s, 1, Len(s) - 1)) ELSE s

Strip(s) == RStrip(LStrip(s))

StartsWith(s, prefix) == s # <<>> /\ Head(s) = prefix

Contains(s, token) == \E i \in 1..Len(s) : s[i] = token

(***************************************************************************)
(* discovery.py: tiers, priorities, sources.  A URL is its host and its    *)
(* path, each a sequence of tokens; `pattern in domain` is token            *)
(* membership.                                                              *)
(***************************************************************************)
TIER_1_PATTERNS == <<"docs.", ".readthedocs.", "/docs/", "/documentation/", "/reference/", "/api/">>
TIER_2_DOMAINS == <<"github.com", "gitlab.com", "arxiv.org", "developer.", "devdocs.io">>
TIER_3_DOMAINS == <<"stackoverflow.com", "stackexchange.com", "medium.com", "dev.to", "blog.",
                    "towardsdatascience.com">>

Url(domain, path) == [domain |-> domain, path |-> path]

ClassifyTier(url, is_seed) ==
    IF is_seed THEN 1
    ELSE IF \E i \in 1..Len(TIER_1_PATTERNS) :
                Contains(url.domain, TIER_1_PATTERNS[i]) \/ Contains(url.path, TIER_1_PATTERNS[i])
         THEN 1
    ELSE IF \E i \in 1..Len(TIER_2_DOMAINS) : Contains(url.domain, TIER_2_DOMAINS[i]) THEN 2
    ELSE IF \E i \in 1..Len(TIER_3_DOMAINS) : Contains(url.domain, TIER_3_DOMAINS[i]) THEN 3
    ELSE 2

\* a mapped source that gets the base priority of its tier
TierToPriority_MappedAtBase(tier, source_type) ==
    LET base == CASE tier = 1 -> 1 [] tier = 2 -> 4 [] tier = 3 -> 7
    IN  IF source_type = "seed" THEN 1
        ELSE IF source_type = "mapped" THEN base
        ELSE base + 2

TierToPriority(tier, source_type) ==
    LET base == CASE tier = 1 -> 1 [] tier = 2 -> 4 [] tier = 3 -> 7
    IN  IF source_type = "seed" THEN 1
        ELSE IF source_type = "mapped" THEN base + 1
        ELSE base + 2

Source(url, title, source_type, priority, tier, content) ==
    [url |-> url, title |-> title, source_type |-> source_type, priority |-> priority,
     tier |-> tier, content |-> content]

\* url.rstrip("/"): the URL without the slashes at its end; a slash at the
\* end of a URL is a token "/" of its path
RECURSIVE RStripSlashes(_)
RStripSlashes(path) ==
    IF path # <<>> /\ path[Len(path)] = "/"
    THEN RStripSlashes(SubSeq(path, 1, Len(path) - 1))
    ELSE path

NormalizedUrl(url) == [url EXCEPT !.path = RStripSlashes(url.path)]

\* a later source that always takes the place of the one kept
ReplacesKept_Always(s, kept) == TRUE

\* line 128: a source takes the place of the one kept for its URL
ReplacesKept(s, kept) == s.priority < kept.priority

\* the loop of _deduplicate_sources: `seen` as the sequence of its values, in
\* the order the keys were inserted
RECURSIVE DeduplicateInto(_, _)
DeduplicateInto(seen, sources) ==
    IF sources = <<>> THEN seen
    ELSE LET s == Head(sources)
             normalized == NormalizedUrl(s.url)
             at == {i \in 1..Len(seen) : NormalizedUrl(seen[i].url) = normalized}
         IN  IF at = {} THEN DeduplicateInto(Append(seen, s), Tail(sources))
             ELSE LET i == CHOOSE i \in at : TRUE
                  IN  IF ReplacesKept(s, seen[i])
                      THEN DeduplicateInto([seen EXCEPT ![i] = s], Tail(sources))
                      ELSE DeduplicateInto(seen, Tail(sources))

\* _deduplicate_sources
DeduplicateSources(sources) == DeduplicateInto(<<>>, sources)

\* list.sort(key=lambda s: s.priority): a stable sort by priority
RECURSIVE InsertByPriority(_, _)
InsertByPriority(sorted, s) ==
    IF sorted = <<>> THEN <<s>>
    ELSE IF s.priority < Head(sorted).priority THEN <<s>> \o sorted
    ELSE <<Head(sorted)>> \o InsertByPriority(Tail(sorted), s)

RECURSIVE SortByPriority(_)
SortByPriority(sources) ==
    IF sources = <<>> THEN <<>>
    ELSE InsertByPriority(SortByPriority(SubSeq(sources, 1, Len(sources) - 1)),
                          sources[Len(sources)])

\* docs_mappings of _extract_docs_domain, in the order of the dict (the entries
\* whose service name is a token of the model)
DocsMappings ==
    << [service |-> "stripe",    docs_url |-> Url(<<"docs.", "stripe.com">>, <<"/api">>)],
       [service |-> "firecrawl", docs_url |-> Url(<<"docs.", "firecrawl.dev">>, <<>>)] >>

ExtractDocsDomain(query) ==
    LET hits == {i \in 1..Len(DocsMappings) : Contains(query, DocsMappings[i].service)}
    IN  IF hits = {} THEN None
        ELSE Some(DocsMappings[CHOOSE i \in hits : \A j \in hits : i <= j].docs_url)

(***************************************************************************)
(* The crawling/search capability.  A reply of the service is              *)
(* [failed, items]; an item is [url, title, markdown] with markdown         *)
(* optional.  search_for_gap calls search and crawl_url with a stealth      *)
(* flag; the wrappers of firecrawl_client.py take none, so the two below    *)
(* follow the contract of the capability (query or url, limit, stealth):    *)
(* a typed error when the service fails or returns no usable item.          *)
(***************************************************************************)
Reply(failed, items) == [failed |-> failed, items |-> items]
Item(url, markdown) == [url |-> url, title |-> None, markdown |-> markdown]

Truthy(opt) == opt # None /\ opt[1] # <<>>

\* search(query, limit, scrape, stealth): [raised, results]
FirecrawlSearch(reply) ==
    IF reply.failed \/ reply.items = <<>>
    THEN [raised |-> "FirecrawlSearchError", results |-> <<>>]
    ELSE [raised |-> "", results |-> reply.items]

\* crawl_url(url, limit, stealth): [raised, pages]; documents without markdown
\* are listed as failed and are not pages
CrawlUrl(reply) ==
    LET pages == SelectSeq(reply.items, LAMBDA it : Truthy(it.markdown))
    IN  IF reply.failed \/ pages = <<>>
        THEN [raised |-> "FirecrawlCrawlError", pages |-> <<>>]
        ELSE [raised |-> "", pages |-> pages]

\* map_url(url, limit): [raised, urls]
MapUrl(reply) ==
    IF reply.failed \/ reply.items = <<>>
    THEN [raised |-> "FirecrawlMapError", urls |-> <<>>]
    ELSE [raised |-> "", urls |-> reply.items]

ToSearchedSource(item) ==
    LET tier == ClassifyTier(item.url, FALSE)
    IN  Source(item.url, item.title, "searched", TierToPriority(tier, "searched"), tier,
               item.markdown)

ToSources(items) == [i \in 1..Len(items) |-> ToSearchedSource(items[i])]

\* _is_docs_url: an indicator is in the path when it is one of its tokens or
\* the start of one ("/api" in "/api/")
DocsIndicators ==
    {"/docs", "/documentation", "/guide", "/tutorial", "/api", "/reference", "/manual",
     "/learn", "/getting-started", "/quickstart", "/handbook", "/wiki"}
IsDocsUrl(url) ==
    \E ind \in DocsIndicators :
        \E i \in 1..Len(url.path) : url.path[i] = ind \/ url.path[i] = ind \o "/"

\* the URLs of the model in the order of their text (str comparison)
UrlsInOrder ==
    << Url(<<"blog.", "example.com">>, <<"/docs/", "x">>),
       Url(<<"developer.", "x.org">>, <<"/guide">>),
       Url(<<"docs.", "stripe.com">>, <<"/api">>),
       Url(<<"docs.", "stripe.com">>, <<"/api", "/">>),
       Url(<<"docs.", "stripe.com">>, <<"/api/", "charges">>),
       Url(<<"docs.", "stripe.com">>, <<"/api/", "webhooks">>),
       Url(<<"example.com">>, <<"/">>),
       Url(<<"example.com">>, <<"/blog">>),
       Url(<<"medium.com">>, <<"/guide">>),
       Url(<<"stackoverflow.com">>, <<"/questions/", "1">>) >>
UrlRank(url) == CHOOSE i \in 1..Len(UrlsInOrder) : UrlsInOrder[i] = url

\* a sort that leaves sources of one priority in the order they came
SourceBefore_PriorityOnly(a, b) == a.priority < b.priority

\* the sort key of line 325: (s.priority, s.url)
SourceBefore(a, b) ==
    \/ a.priority < b.priority
    \/ a.priority = b.priority /\ UrlRank(a.url) < UrlRank(b.url)

RECURSIVE InsertByKey(_, _)
InsertByKey(sorted, s) ==
    IF sorted = <<>> THEN <<s>>
    ELSE IF SourceBefore(s, Head(sorted)) THEN <<s>> \o sorted
    ELSE <<Head(sorted)>> \o InsertByKey(Tail(sorted), s)

\* sources.sort(key=lambda s: (s.priority, s.url))
RECURSIVE SortByPriorityAndUrl(_)
SortByPriorityAndUrl(sources) ==
    IF sources = <<>> THEN <<>>
    ELSE InsertByKey(SortByPriorityAndUrl(SubSeq(sources, 1, Len(sources) - 1)),
                     sources[Len(sources)])

\* a seed that is classified like any other URL
DiscoveredSeed_Classified(seed_url) ==
    LET tier == ClassifyTier(seed_url, FALSE)
    IN  Source(seed_url, None, "seed", TierToPriority(tier, "seed"), tier, None)

\* lines 254-260: the seed source
DiscoveredSeed(seed_url) == Source(seed_url, None, "seed", 1, 1, None)

\* line 272: the links of the site map that are kept
KeptLink(link, seed_url) == link.url.domain = seed_url.domain \/ IsDocsUrl(link.url)

\* lines 273-283: the source of a kept link
ToMappedSource(link, seed_url) ==
    LET tier == IF link.url.domain = seed_url.domain THEN 1 ELSE ClassifyTier(link.url, FALSE)
    IN  Source(link.url, link.title, "mapped", TierToPriority(tier, "mapped"), tier, None)

MappedSources(urls, seed_url) ==
    LET kept == SelectSeq(urls, LAMBDA link : KeptLink(link, seed_url))
    IN  [i \in 1..Len(kept) |-> ToMappedSource(kept[i], seed_url)]

\* a search call as discover_sources issues it
SearchCall(stealth, result) == [stealth |-> stealth, raised |-> result.raised]

\* lines 289-321: the supplementary search, [calls, results].  search_reply
\* and stealth_reply are what the service answers to the search without and
\* with stealth.
SupplementarySearch(search_reply, stealth_reply) ==
    LET search_result == FirecrawlSearch(search_reply)
        stealth_result == FirecrawlSearch(stealth_reply)
        first == SearchCall(FALSE, search_result)
        second == SearchCall(TRUE, stealth_result)
    IN  IF search_result.raised = "" /\ search_result.results # <<>>
        THEN [calls |-> <<first>>, results |-> search_result.results]
        ELSE IF search_result.raised = "" /\ stealth_result.raised # ""
        THEN [calls |-> <<first, second, second>>, results |-> <<>>]
        ELSE [calls |-> <<first, second>>, results |-> stealth_result.results]

\* a discovery that a failed supplementary search aborts
DiscoveryRaised_SearchFatal(map_result, searched) ==
    IF map_result.raised # "" \/ searched.calls[Len(searched.calls)].raised # ""
    THEN "DiscoveryError"
    ELSE ""

\* lines 285-286 and 320-321: the exception discover_sources raises
DiscoveryRaised(map_result, searched) ==
    IF map_result.raised # "" THEN "DiscoveryError" ELSE ""

\* discover_sources(task, seed_url): [raised, sources, map_raised, searches].
\* The reply to the search does not depend on the wording of the query, so
\* the task is not an argument.
DiscoverSources(seed_url, map_reply, search_reply, stealth_reply) ==
    LET map_result == MapUrl(map_reply)
        searched == SupplementarySearch(search_reply, stealth_reply)
        sources == <<DiscoveredSeed(seed_url)>> \o MappedSources(map_result.urls, seed_url)
                       \o ToSources(searched.results)
        error == DiscoveryRaised(map_result, searched)
    IN  IF error # ""
        THEN [raised |-> error, sources |-> <<>>, map_raised |-> map_result.raised,
              searches |-> IF map_result.raised # "" THEN <<>> ELSE searched.calls]
        ELSE [raised |-> "", sources |-> SortByPriorityAndUrl(DeduplicateSources(sources)),
              map_raised |-> "", searches |-> searched.calls]

\* a fallback crawl issued for every gap query
FallbackCrawls_Unconditional(gap_query, search_reply) ==
    IF ExtractDocsDomain(gap_query) # None THEN <<ExtractDocsDomain(gap_query)[1]>> ELSE <<>>

\* lines 537-543: the crawl_url calls search_for_gap issues, by their URL
FallbackCrawls(gap_query, search_reply) ==
    LET result == FirecrawlSearch(search_reply)
        docs_url == ExtractDocsDomain(gap_query)
    IN  IF (result.raised # "" \/ result.results = <<>>) /\ docs_url # None
        THEN <<docs_url[1]>>
        ELSE <<>>

\* search_for_gap(gap_query): the sources found.  search_reply and crawl_reply
\* are what the service answers to the search and to the fallback crawl.  The
\* reply to the search does not depend on the wording of the query, so the
\* simplification of the query is not represented.
SearchForGap(gap_query, search_reply, crawl_reply) ==
    LET result == FirecrawlSearch(search_reply)
        crawl == CrawlUrl(crawl_reply)
        crawl_sources == ToSources(crawl.pages)
    IN  IF FallbackCrawls(gap_query, search_reply) # <<>> /\ crawl.raised = ""
           /\ crawl_sources # <<>>
        THEN SortByPriority(crawl_sources)
        ELSE SortByPriority(ToSources(result.results))

(***************************************************************************)
(* corpus.py: the manifest and the page files.  The corpus directory is    *)
(* `manifest` (manifest.json, absent when None) and `files`, a function    *)
(* from the names of the page files to their contents.  The content of a   *)
(* file is its frontmatter (absent in a file the program did not write)    *)
(* and the text after it; the crawled_at stamp of the frontmatter is left  *)
(* out.                                                                    *)
(***************************************************************************)
\* _url_to_filename: the zero-padded ordinal index and the slug of host + path
UrlToFilename(url, index) == [index |-> index, slug |-> url.domain \o url.path]

\* _estimate_tokens: len(text) // 4
EstimateTokens(text) == Len(text) \div 4

\* _write_page: the PageInfo of the page written (its manifest entry)
PageInfo(url, title, markdown, index, source_type, priority, tier) ==
    [filename |-> UrlToFilename(url, index), url |-> url, title |-> title,
     source_type |-> source_type, priority |-> priority, tier |-> tier,
     token_estimate |-> EstimateTokens(markdown)]

\* _write_page: the text written to the file (frontmatter + markdown)
FileContent(url, title, markdown, source_type, priority, tier) ==
    [frontmatter |-> Some([url |-> url, title |-> title, source_type |-> source_type,
                           priority |-> priority, tier |-> tier]),
     text |-> markdown]

\* _write_page: the write_text of the page file, [name, content]
PageWrite(url, title, markdown, index, source_type, priority, tier) ==
    [name |-> UrlToFilename(url, index),
     content |-> FileContent(url, title, markdown, source_type, priority, tier)]

\* Path.write_text on the directory: creates the file or replaces its content
WriteText(fs, w) ==
    [n \in DOMAIN fs \cup {w.name} |-> IF n = w.name THEN w.content ELSE fs[n]]

RECURSIVE WriteAll(_, _)
WriteAll(fs, writes) ==
    IF writes = <<>> THEN fs ELSE WriteAll(WriteText(fs, Head(writes)), Tail(writes))

NoFiles == [n \in {} |-> 0]

RECURSIVE SumTokens(_)
SumTokens(pages) ==
    IF pages = <<>> THEN 0 ELSE Head(pages).token_estimate + SumTokens(Tail(pages))

TierBreakdown(pages) ==
    [t \in 1..3 |-> Cardinality({i \in 1..Len(pages) : pages[i].tier = t})]

\* a loop that also passes over the sources of the lowest tier
SkippedSource_SkipsLowTier(source, existing_urls) ==
    source.url \in existing_urls \/ ~Truthy(source.content) \/ source.tier = 3

\* lines 395-398: a source the loop of add_pages_to_corpus passes over
SkippedSource(source, existing_urls) ==
    source.url \in existing_urls \/ ~Truthy(source.content)

\* an index that starts at the number of pages, the index of the last page
FirstNewIndex_ReusesLast(m) == m.total_pages

\* line 391: the index of the first page add_pages_to_corpus writes
FirstNewIndex(m) == m.total_pages + 1

\* pages that are sorted by priority again after the append
AppendPages_Resorted(pages, new) == SortByPriority(pages \o new)

\* line 410: manifest["pages"].append, for each new page in turn
AppendPages(pages, new) == pages \o new

\* the loop of add_pages_to_corpus over `sources`: the pages appended, in order.
\* existing_urls is computed once, before the loop, and is not extended by it.
RECURSIVE NewPages(_, _, _)
NewPages(sources, existing_urls, page_index) ==
    IF sources = <<>> THEN <<>>
    ELSE LET source == Head(sources)
         IN  IF SkippedSource(source, existing_urls)
             THEN NewPages(Tail(sources), existing_urls, page_index)
             ELSE <<PageInfo(source.url, source.title, source.content[1], page_index,
                             source.source_type, source.priority, source.tier)>>
                  \o NewPages(Tail(sources), existing_urls, page_index + 1)

\* the same loop: the files written, in order
RECURSIVE NewWrites(_, _, _)
NewWrites(sources, existing_urls, page_index) ==
    IF sources = <<>> THEN <<>>
    ELSE LET source == Head(sources)
         IN  IF SkippedSource(source, existing_urls)
             THEN NewWrites(Tail(sources), existing_urls, page_index)
             ELSE <<PageWrite(source.url, source.title, source.content[1], page_index,
                              source.source_type, source.priority, source.tier)>>
                  \o NewWrites(Tail(sources), existing_urls, page_index + 1)

\* a manifest that is stamped and written also when nothing was added
UpdatedManifest_AlwaysWritten(m, pages, added) ==
    [m EXCEPT !.pages = pages,
              !.total_pages = Len(pages),
              !.total_tokens_estimate = SumTokens(pages),
              !.tier_breakdown = TierBreakdown(pages),
              !.updated_at = m.updated_at + 1]

\* a manifest whose token total is not recomputed
UpdatedManifest_StaleTokens(m, pages, added) ==
    IF added > 0
    THEN [m EXCEPT !.pages = pages,
                   !.total_pages = Len(pages),
                   !.tier_breakdown = TierBreakdown(pages),
                   !.updated_at = m.updated_at + 1]
    ELSE m

\* lines 422-438: the manifest add_pages_to_corpus leaves behind
UpdatedManifest(m, pages, added) ==
    IF added > 0
    THEN [m EXCEPT !.pages = pages,
                   !.total_pages = Len(pages),
                   !.total_tokens_estimate = SumTokens(pages),
                   !.tier_breakdown = TierBreakdown(pages),
                   !.updated_at = m.updated_at + 1]
    ELSE m

\* add_pages_to_corpus on an existing manifest m: [manifest, written, added]
AddPagesToCorpus(m, sources) ==
    LET existing_urls == {m.pages[i].url : i \in 1..Len(m.pages)}
        new == NewPages(sources, existing_urls, FirstNewIndex(m))
        pages == AppendPages(m.pages, new)
        added == Len(new)
    IN  [manifest |-> UpdatedManifest(m, pages, added),
         written |-> NewWrites(sources, existing_urls, FirstNewIndex(m)),
         added |-> added]

\* a check that refuses only the missing files
UnreadablePage_MissingOnly(page_info, fs) == page_info.filename \notin DOMAIN fs

\* lines 355-366: a page file load_corpus_as_context refuses (missing or empty)
UnreadablePage(page_info, fs) ==
    \/ page_info.filename \notin DOMAIN fs
    \/ LET content == fs[page_info.filename]
       IN  content.frontmatter = None /\ Strip(content.text) = <<>>

\* lines 368-374: the part of the context a page file contributes
ContextPart(page_info, fs) ==
    LET content == fs[page_info.filename]
    IN  [url |-> page_info.url,
         content |-> IF content.frontmatter # None THEN Strip(content.text) ELSE content.text]

\* the loop of load_corpus_as_context over the pages of the manifest
RECURSIVE LoadParts(_, _)
LoadParts(pages, fs) ==
    IF pages = <<>> THEN [raised |-> "", parts |-> <<>>]
    ELSE IF UnreadablePage(Head(pages), fs)
    THEN [raised |-> "CorpusLoadError", parts |-> <<>>]
    ELSE LET rest == LoadParts(Tail(pages), fs)
         IN  IF rest.raised # "" THEN rest
             ELSE [raised |-> "", parts |-> <<ContextPart(Head(pages), fs)>> \o rest.parts]

\* load_corpus_as_context: [raised, parts]; the context is the parts joined
LoadCorpusAsContext(mf, fs) ==
    IF mf = None THEN [raised |-> "CorpusLoadError", parts |-> <<>>]
    ELSE LET r == LoadParts(mf[1].pages, fs)
         IN  IF r.raised = "" /\ r.parts = <<>>
             THEN [raised |-> "CorpusLoadError", parts |-> <<>>]
             ELSE r

\* load_corpus_as_context: TRUE when it returns a context, FALSE when it raises
\* CorpusLoadError
CorpusLoads(mf, fs) == LoadCorpusAsContext(mf, fs).raised = ""

(***************************************************************************)
(* corpus.py: build_corpus.  `pattern in url` is token membership in the   *)
(* host or the path; the path of a github URL is given by its segments.    *)
(***************************************************************************)
InUrl(pattern, url) == Contains(url.domain, pattern) \/ Contains(url.path, pattern)

LooksLikeDocsDomain(url) ==
    \E indicator \in {"docs.", "developer.", "developers.", "learn.", "devdocs."} :
        Contains(url.domain, indicator)

IsCrawlableUrl(url) ==
    LET valuable_patterns == {"/advisories", "/security", "/docs", "/documentation",
                              "/guide", "/tutorial", "/reference", "/api-reference"}
        non_crawlable_patterns == {"twitter.com", "x.com", "facebook.com", "linkedin.com",
                                   "youtube.com", "reddit.com", "discord.com", "slack.com",
                                   "/login", "/signin", "/signup", "/auth",
                                   "/api/v", "/v1/", "/v2/", "/v3/"}
        api_in_docs == InUrl("/api/", url) /\ (InUrl("docs", url) \/ InUrl("reference", url))
    IN  IF \E pattern \in valuable_patterns : InUrl(pattern, url) THEN TRUE
        ELSE IF url.path = <<>> THEN LooksLikeDocsDomain(url)
        ELSE ~ \E pattern \in non_crawlable_patterns : InUrl(pattern, url) /\ ~api_in_docs

\* _normalize_github_url: the URL itself, or None for a URL to skip
NormalizeGithubUrl(url) ==
    LET path == url.path
        valuable_paths == {"advisories", "security", "wiki", "discussions"}
        skip_patterns == {"login", "signup", "settings", "notifications", "marketplace",
                          "explore", "trending", "collections", "sponsors", "orgs",
                          "enterprises"}
    IN  IF ~Contains(url.domain, "github.com") THEN Some(url)
        ELSE IF path = <<>> THEN None
        ELSE IF \E v \in valuable_paths : Contains(path, v) THEN Some(url)
        ELSE IF Head(path) \in skip_patterns THEN None
        ELSE IF Len(path) >= 2 THEN (IF path[2] \in skip_patterns THEN None ELSE Some(url))
        ELSE None

\* _filter_crawlable_sources (a normalized URL is the URL itself)
FilterCrawlableSources(sources) ==
    SelectSeq(sources, LAMBDA source :
        /\ InUrl("github.com", source.url) => NormalizeGithubUrl(source.url) # None
        /\ IsCrawlableUrl(source.url))

\* lines 378-388: the candidate a search result gives, if any
CandidateOf(item) ==
    LET url == IF InUrl("github.com", item.url) THEN NormalizeGithubUrl(item.url)
               ELSE Some(item.url)
    IN  IF url = None THEN <<>>
        ELSE IF ~IsCrawlableUrl(url[1]) THEN <<>>
        ELSE <<url[1]>>

RECURSIVE CandidatesOf(_)
CandidatesOf(items) ==
    IF items = <<>> THEN <<>> ELSE CandidateOf(Head(items)) \o CandidatesOf(Tail(items))

\* lines 364-388: the candidates of the seed searches; a round is what the
\* service answers to one query, without and with stealth
RECURSIVE CandidateUrls(_)
CandidateUrls(rounds) ==
    IF rounds = <<>> THEN <<>>
    ELSE CandidatesOf(SupplementarySearch(Head(rounds).reply, Head(rounds).stealth_reply).results)
         \o CandidateUrls(Tail(rounds))

\* lines 396-402: the docs-like candidates, when there is one
DocsCandidates(candidate_urls) ==
    LET docs_candidates == SelectSeq(candidate_urls,
                                     LAMBDA url : IsDocsUrl(url) \/ LooksLikeDocsDomain(url))
    IN  IF docs_candidates # <<>> THEN docs_candidates ELSE candidate_urls

\* lines 404-411: the first candidate of each normalized URL
RECURSIVE UniqueCandidates(_, _)
UniqueCandidates(candidate_urls, seen_urls) ==
    IF candidate_urls = <<>> THEN <<>>
    ELSE LET normalized == NormalizedUrl(Head(candidate_urls))
         IN  IF normalized \in seen_urls THEN UniqueCandidates(Tail(candidate_urls), seen_urls)
             ELSE <<Head(candidate_urls)>>
                  \o UniqueCandidates(Tail(candidate_urls), seen_urls \cup {normalized})

\* every candidate taken as a seed
SeedsToTry_All(unique_candidates, max_seeds) == unique_candidates

\* line 415: unique_candidates[:max_seeds]
SeedsToTry(unique_candidates, max_seeds) ==
    SubSeq(unique_candidates, 1,
           IF max_seeds < Len(unique_candidates) THEN max_seeds ELSE Len(unique_candidates))

RECURSIVE ConcatSources(_)
ConcatSources(discoveries) ==
    IF discoveries = <<>> THEN <<>>
    ELSE Head(discoveries).sources \o ConcatSources(Tail(discoveries))

\* discover_sources_from_task(task, max_seeds): [raised, sources, candidates,
\* tried], with the seeds tried and the error of each.  map_replies gives the
\* site map of each host; search_reply and stealth_reply are the answers to
\* the supplementary search of each seed.
DiscoverSourcesFromTask(max_seeds, rounds, map_replies, search_reply, stealth_reply) ==
    LET candidate_urls == CandidateUrls(rounds)
        unique_candidates == UniqueCandidates(DocsCandidates(candidate_urls), {})
        seeds == SeedsToTry(unique_candidates, max_seeds)
        discoveries == [i \in 1..Len(seeds) |->
                           DiscoverSources(seeds[i], map_replies[seeds[i].domain],
                                           search_reply, stealth_reply)]
        tried == [i \in 1..Len(seeds) |->
                     [seed_url |-> seeds[i], raised |-> discoveries[i].raised,
                      sources |-> discoveries[i].sources]]
        sources == ConcatSources(discoveries)
    IN  IF candidate_urls = <<>>
        THEN [raised |-> "DiscoveryError", sources |-> <<>>, candidates |-> <<>>,
              tried |-> <<>>]
        ELSE IF sources = <<>>
        THEN [raised |-> "DiscoveryError", sources |-> <<>>,
              candidates |-> unique_candidates, tried |-> tried]
        ELSE [raised |-> "", sources |-> SortByPriorityAndUrl(DeduplicateSources(sources)),
              candidates |-> unique_candidates, tried |-> tried]

\* _get_base_url: scheme and host
BaseUrl(url) == url.domain

\* a crawl_url call as the log of the build records it: the stealth flag it
\* was issued with, the error it raised and the number of pages it returned
CrawlCall(stealth, result) ==
    [stealth |-> stealth, raised |-> result.raised, pages |-> Len(result.pages)]

\* a _crawl_domain call as the log of the build records it: its arguments, the
\* crawl_url calls it issued, the number of pages it returned, the errors it
\* returned and the number of its pages the build wrote
DomainCrawl(base_url, limit, stealth, crawled) ==
    [base_url |-> base_url, limit |-> limit, stealth |-> stealth,
     calls |-> crawled.calls, kept |-> Len(crawled.pages), errors |-> crawled.errors,
     written |-> 0]

\* line 144: the crawl that returned is retried with stealth
TooFewPages(pages, stealth, limit) == Len(pages) <= 1 /\ ~stealth /\ limit > 5

\* a retry whose result is never taken
KeptPages_KeepsFirst(pages, stealth_result) == pages

\* lines 153-155: the pages kept after the stealth retry of a crawl that returned
KeptPages(pages, stealth_result) ==
    IF stealth_result.raised = "" /\ Len(stealth_result.pages) > Len(pages)
    THEN stealth_result.pages
    ELSE pages

\* a failed crawl that is retried whatever the caller requested
RetriesFailedCrawl_Always(stealth) == TRUE

\* line 160: a crawl that failed is retried with stealth
RetriesFailedCrawl(stealth) == ~stealth

\* _crawl_domain: [pages, errors, calls].  reply[s] is what the service answers
\* to a crawl of the domain issued with stealth = s.
CrawlDomain(base_url, limit, stealth, reply) ==
    LET crawl_result == CrawlUrl(reply[stealth])
        stealth_result == CrawlUrl(reply[TRUE])
        first == CrawlCall(stealth, crawl_result)
        second == CrawlCall(TRUE, stealth_result)
    IN  IF crawl_result.raised = ""
        THEN IF TooFewPages(crawl_result.pages, stealth, limit)
             THEN [pages |-> KeptPages(crawl_result.pages, stealth_result),
                   errors |-> <<>>, calls |-> <<first, second>>]
             ELSE [pages |-> crawl_result.pages, errors |-> <<>>, calls |-> <<first>>]
        ELSE IF RetriesFailedCrawl(stealth)
             THEN [pages |-> stealth_result.pages,
                   errors |-> IF stealth_result.raised = "" THEN <<>> ELSE <<base_url>>,
                   calls |-> <<first, second>>]
             ELSE [pages |-> <<>>, errors |-> <<base_url>>, calls |-> <<first>>]

\* lines 222-228: the domains of the SEED and MAPPED sources, in the order of
\* their first source (the keys of domain_sources)
RECURSIVE DomainsOf(_, _)
DomainsOf(sources, seen) ==
    IF sources = <<>> THEN <<>>
    ELSE LET source == Head(sources)
             base == BaseUrl(source.url)
         IN  IF source.source_type \in {"seed", "mapped"} /\ base \notin seen
             THEN <<base>> \o DomainsOf(Tail(sources), seen \cup {base})
             ELSE DomainsOf(Tail(sources), seen)

\* line 238: the best tier among the sources of a domain
DomainTier(sources, base_url) ==
    LET tiers == {sources[i].tier : i \in {j \in 1..Len(sources) :
                      /\ sources[j].source_type \in {"seed", "mapped"}
                      /\ BaseUrl(sources[j].url) = base_url}}
    IN  CHOOSE t \in tiers : \A u \in tiers : t <= u

\* the locals of build_corpus: pages_info, the files written, page_index,
\* seen_urls, remaining_limit, crawl_errors and the domain crawls run
BuildLocals(limit) ==
    [pages_info |-> <<>>, writes |-> <<>>, page_index |-> 1, seen_urls |-> {},
     remaining_limit |-> limit, crawl_errors |-> <<>>, calls |-> <<>>]

\* a build that never takes its budget for spent
BudgetSpent_Never(st) == FALSE

\* lines 232 and 276, `if remaining_limit <= 0: break`
BudgetSpent(st) == st.remaining_limit <= 0

\* lines 259-277: the pages of one domain crawl are written
RECURSIVE WriteCrawled(_, _, _)
WriteCrawled(pages, st, domain_tier) ==
    IF pages = <<>> THEN st
    ELSE LET page == Head(pages)
         IN  IF page.url \in st.seen_urls THEN WriteCrawled(Tail(pages), st, domain_tier)
             ELSE LET written ==
                          [st EXCEPT
                             !.seen_urls = @ \cup {page.url},
                             !.pages_info = Append(@, PageInfo(page.url, page.title,
                                 page.markdown[1], st.page_index, "crawled",
                                 domain_tier + 1, domain_tier)),
                             !.writes = Append(@, PageWrite(page.url, page.title,
                                 page.markdown[1], st.page_index, "crawled",
                                 domain_tier + 1, domain_tier)),
                             !.page_index = @ + 1,
                             !.remaining_limit = @ - 1]
                  IN  IF BudgetSpent(written) THEN written
                      ELSE WriteCrawled(Tail(pages), written, domain_tier)

\* lines 231-277: the loop over the domains.  replies[base_url] is what the
\* service answers to the crawls of that domain.  include_paths narrows what
\* the service crawls and is not represented.
RECURSIVE CrawlDomains(_, _, _, _, _)
CrawlDomains(domains, sources, st, stealth, replies) ==
    IF domains = <<>> \/ BudgetSpent(st) THEN st
    ELSE LET base_url == Head(domains)
             crawled == CrawlDomain(base_url, st.remaining_limit, stealth, replies[base_url])
             logged == [st EXCEPT !.crawl_errors = @ \o crawled.errors,
                                  !.calls = Append(@, DomainCrawl(base_url,
                                      st.remaining_limit, stealth, crawled))]
             after == WriteCrawled(crawled.pages, logged, DomainTier(sources, base_url))
         IN  CrawlDomains(Tail(domains), sources,
                          [after EXCEPT !.calls[Len(after.calls)].written =
                                            Len(after.pages_info) - Len(st.pages_info)],
                          stealth, replies)

\* lines 286-300: the prefetched content of the sources is written
RECURSIVE WritePrefetched(_, _)
WritePrefetched(sources, st) ==
    IF sources = <<>> THEN st
    ELSE LET source == Head(sources)
         IN  IF Truthy(source.content) /\ source.url \notin st.seen_urls
             THEN WritePrefetched(Tail(sources),
                      [st EXCEPT
                         !.seen_urls = @ \cup {source.url},
                         !.pages_info = Append(@, PageInfo(source.url, source.title,
                             source.content[1], st.page_index, source.source_type,
                             source.priority, source.tier)),
                         !.writes = Append(@, PageWrite(source.url, source.title,
                             source.content[1], st.page_index, source.source_type,
                             source.priority, source.tier)),
                         !.page_index = @ + 1])
             ELSE WritePrefetched(Tail(sources), st)

\* lines 215-219: the URL of the first SEED source
ManifestSeedUrl(sources) ==
    LET seeds == {i \in 1..Len(sources) : sources[i].source_type = "seed"}
    IN  IF seeds = {} THEN None
        ELSE Some(sources[CHOOSE i \in seeds : \A j \in seeds : i <= j].url)

\* lines 305-337: the manifest build_corpus writes
BuildManifest(task, sources, pages_info) ==
    [task |-> task, seed_url |-> ManifestSeedUrl(sources), created_at |-> 0, updated_at |-> 0,
     pages |-> pages_info, total_pages |-> Len(pages_info),
     total_tokens_estimate |-> SumTokens(pages_info),
     tier_breakdown |-> TierBreakdown(pages_info)]

BuildFailure(message, calls) ==
    [raised |-> message, manifest |-> None, files |-> NoFiles, calls |-> calls]

\* a check that gives up as soon as one domain crawl failed
AllCrawlsFailed_AnyError(st) == st.crawl_errors # <<>>

\* line 280: every crawl failed and nothing was crawled
AllCrawlsFailed(st) == st.pages_info = <<>> /\ st.crawl_errors # <<>>

\* a check that is never true
NoPagesRetrieved_Never(pages_info) == FALSE

\* line 302: nothing was written
NoPagesRetrieved(pages_info) == pages_info = <<>>

\* build_corpus: [raised, manifest, files, calls]
BuildCorpus(task, unfiltered, limit, stealth, replies) ==
    LET sources == FilterCrawlableSources(unfiltered)
        crawled == CrawlDomains(DomainsOf(sources, {}), sources, BuildLocals(limit),
                                stealth, replies)
        written == WritePrefetched(sources, crawled)
    IN  IF sources = <<>> THEN BuildFailure("No crawlable sources found after filtering", <<>>)
        ELSE IF AllCrawlsFailed(crawled)
        THEN BuildFailure("All crawl attempts failed", crawled.calls)
        ELSE IF NoPagesRetrieved(written.pages_info)
        THEN BuildFailure("No pages retrieved for corpus", written.calls)
        ELSE [raised |-> "",
              manifest |-> Some(BuildManifest(task, sources, written.pages_info)),
              files |-> WriteAll(NoFiles, written.writes),
              calls |-> written.calls]

\* build_corpus: the _write_page calls of a build, in order (lines 259-277 for
\* the crawled pages, lines 286-300 for the prefetched ones)
BuildWrites(task, unfiltered, limit, stealth, replies) ==
    LET sources == FilterCrawlableSources(unfiltered)
        crawled == CrawlDomains(DomainsOf(sources, {}), sources, BuildLocals(limit),
                                stealth, replies)
    IN  IF sources = <<>> THEN <<>> ELSE WritePrefetched(sources, crawled).writes

(***************************************************************************)
(* shadow_validation.py                                                     *)
(***************************************************************************)
\* _extract_code_blocks: the fenced blocks of a text as [lang, syntax_ok]
CodeBlock(token) ==
    CASE token = PY_OK -> Some([lang |-> "python", syntax_ok |-> TRUE, imports_ok |-> TRUE])
      [] token = PY_BAD -> Some([lang |-> "python", syntax_ok |-> FALSE, imports_ok |-> TRUE])
      [] token = JS_BAD -> Some([lang |-> "js", syntax_ok |-> TRUE, imports_ok |-> FALSE])
      [] token = BASH_OK -> Some([lang |-> "bash", syntax_ok |-> TRUE, imports_ok |-> TRUE])
      [] token = BASH_BAD -> Some([lang |-> "bash", syntax_ok |-> FALSE, imports_ok |-> TRUE])
      [] token = TEXT_BLOCK -> Some([lang |-> "", syntax_ok |-> TRUE, imports_ok |-> TRUE])
      [] OTHER -> None

RECURSIVE ExtractCodeBlocks(_)
ExtractCodeBlocks(text) ==
    IF text = <<>> THEN <<>>
    ELSE CodeBlock(Head(text)) \o ExtractCodeBlocks(Tail(text))

\* lines 115-122: the errors of the blocks.  A python block of the model has
\* well-formed import names; a js block has an import path with a blank.
RECURSIVE BlockErrors(_)
BlockErrors(blocks) ==
    IF blocks = <<>> THEN <<>>
    ELSE (IF Head(blocks).lang \in {"python", "py"} /\ ~Head(blocks).syntax_ok
          THEN <<"Python syntax error">> ELSE <<>>)
         \o (IF Head(blocks).lang \in {"javascript", "js", "typescript", "ts"}
                 /\ ~Head(blocks).imports_ok
             THEN <<"Invalid JS import path">> ELSE <<>>)
         \o BlockErrors(Tail(blocks))

\* _check_pip_installs: an error for each malformed specifier of the text
RECURSIVE PipErrors(_)
PipErrors(text) ==
    IF text = <<>> THEN <<>>
    ELSE (IF Head(text) = PIP_BAD THEN <<"Invalid pip package specifier">> ELSE <<>>)
         \o PipErrors(Tail(text))

\* fast_static_analysis: [errors, warnings]
FastStaticAnalysis(output) ==
    LET blocks == ExtractCodeBlocks(output)
    IN  [errors |-> PipErrors(output) \o BlockErrors(blocks),
         warnings |-> (IF blocks = <<>> THEN <<"No code blocks detected for static analysis">>
                       ELSE <<>>)
                      \o (IF Contains(output, TODO) THEN <<"Found placeholder text">>
                          ELSE <<>>)]

(***************************************************************************)
(* sandbox_runner.py.  Whether a check times out is not decided by the     *)
(* text: timed_out is the set of the positions of the blocks whose check    *)
(* runs out of time.  The result of run_sandbox_validation is given with    *)
(* the state of the temporary directory when the call returns and with the  *)
(* positions of the blocks that were checked.                               *)
(***************************************************************************)
SandboxResult(success, exit_code, stderr) ==
    [success |-> success, exit_code |-> exit_code, stderr |-> stderr]

\* a check that runs out of time and counts as passed
RunCommand_TimeoutPasses(block, slow) ==
    IF slow THEN SandboxResult(TRUE, 0, "")
    ELSE IF block.syntax_ok THEN SandboxResult(TRUE, 0, "")
    ELSE SandboxResult(FALSE, IF block.lang \in {"python", "py"} THEN 1 ELSE 2, "syntax error")

\* _run_command on the script of a block: py_compile exits with 1 and
\* bash -n with 2 on a syntax error
RunCommand(block, slow) ==
    IF slow THEN SandboxResult(FALSE, 124, "Sandbox validation timed out")
    ELSE IF block.syntax_ok THEN SandboxResult(TRUE, 0, "")
    ELSE SandboxResult(FALSE, IF block.lang \in {"python", "py"} THEN 1 ELSE 2, "syntax error")

\* the loop of lines 58-80: [result, checked]
RECURSIVE CheckBlocks(_, _, _, _)
CheckBlocks(blocks, idx, timed_out, checked) ==
    IF idx > Len(blocks) THEN [result |-> SandboxResult(TRUE, 0, ""), checked |-> checked]
    ELSE IF blocks[idx].lang \in {"python", "py", "bash", "sh", "shell"}
    THEN LET result == RunCommand(blocks[idx], idx \in timed_out)
         IN  IF ~result.success
             THEN [result |-> result, checked |-> Append(checked, idx)]
             ELSE CheckBlocks(blocks, idx + 1, timed_out, Append(checked, idx))
    ELSE CheckBlocks(blocks, idx + 1, timed_out, checked)

\* a temporary directory that stays when a check failed
TemporaryDirectoryExit_KeptOnFailure(result) == IF result.success THEN "removed" ELSE "exists"

\* the end of the `with tempfile.TemporaryDirectory` block, by return or not
TemporaryDirectoryExit(result) == "removed"

\* a runner that accepts an output without code blocks
RunSandboxValidation_EmptyPasses(output, timed_out) ==
    LET blocks == ExtractCodeBlocks(output)
        run == CheckBlocks(blocks, 1, timed_out, <<>>)
    IN  [success |-> run.result.success, exit_code |-> run.result.exit_code,
         stderr |-> run.result.stderr, tmpdir |-> TemporaryDirectoryExit(run.result),
         checked |-> run.checked]

\* run_sandbox_validation(output, task)
RunSandboxValidation(output, timed_out) ==
    LET blocks == ExtractCodeBlocks(output)
        run == CheckBlocks(blocks, 1, timed_out, <<>>)
    IN  IF blocks = <<>>
        THEN [success |-> FALSE, exit_code |-> 2, stderr |-> "No runnable code blocks found",
              tmpdir |-> "never created", checked |-> <<>>]
        ELSE [success |-> run.result.success, exit_code |-> run.result.exit_code,
              stderr |-> run.result.stderr, tmpdir |-> TemporaryDirectoryExit(run.result),
              checked |-> run.checked]

\* the sandbox_runner argument of shadow_validate_output called on an output:
\* none, run_sandbox_validation, or a runner that accepts every output
SandboxRunners == {"none", "run_sandbox_validation", "accept_all"}
SandboxRun(runner, output, timed_out) ==
    CASE runner = "none" -> None
      [] runner = "run_sandbox_validation" -> Some(RunSandboxValidation(output, timed_out))
      [] OTHER -> Some(SandboxResult(TRUE, 0, ""))

\* a validator that rejects an output the static pass warns about
ShadowValidateOutput_WarningsReject(output, sandbox) ==
    LET static_result == FastStaticAnalysis(output)
    IN  [passed |-> static_result.errors = <<>> /\ static_result.warnings = <<>>,
         errors |-> static_result.errors, warnings |-> static_result.warnings,
         runner_calls |-> 0]

\* a validator that runs the sandbox before it looks at the static errors
ShadowValidateOutput_SandboxFirst(output, sandbox) ==
    LET static_result == FastStaticAnalysis(output)
        ran == IF sandbox # None THEN 1 ELSE 0
    IN  IF sandbox # None /\ ~sandbox[1].success
        THEN [passed |-> FALSE, errors |-> <<"Sandbox validation failed">>,
              warnings |-> static_result.warnings, runner_calls |-> ran]
        ELSE [passed |-> static_result.errors = <<>>, errors |-> static_result.errors,
              warnings |-> static_result.warnings, runner_calls |-> ran]

\* shadow_validate_output(output, task, sandbox_runner): sandbox is what the
\* runner answers when it is called on the output (None without a runner);
\* runner_calls is the number of calls of the runner
ShadowValidateOutput(output, sandbox) ==
    LET static_result == FastStaticAnalysis(output)
    IN  IF static_result.errors # <<>>
        THEN [passed |-> FALSE, errors |-> static_result.errors,
              warnings |-> static_result.warnings, runner_calls |-> 0]
        ELSE IF sandbox # None /\ ~sandbox[1].success
        THEN [passed |-> FALSE,
              errors |-> <<IF sandbox[1].stderr # "" THEN sandbox[1].stderr
                           ELSE "Sandbox validation failed">>,
              warnings |-> static_result.warnings, runner_calls |-> 1]
        ELSE [passed |-> TRUE, errors |-> <<>>, warnings |-> static_result.warnings,
              runner_calls |-> IF sandbox # None THEN 1 ELSE 0]

(***************************************************************************)
(* teacher.py: responses of the language model                              *)
(***************************************************************************)
Fields == {"solution", "summary", "search_query", "reason"}

\* a value of a tool input: absent (None), a non-string, or a string
NoneV == [type |-> "none", text |-> <<>>]
IntV == [type |-> "int", text |-> <<>>]
StrV(t) == [type |-> "str", text |-> t]

TextBlock(t) == [type |-> "text", text |-> t, name |-> "", input |-> [f \in Fields |-> NoneV]]
ToolUse(n, inp) == [type |-> "tool_use", text |-> <<>>, name |-> n, input |-> inp]

\* the concatenation of the text blocks of a response, in order
RECURSIVE TextOf(_)
TextOf(content) ==
    IF content = <<>> THEN <<>>
    ELSE (IF Head(content).type = "text" THEN Head(content).text ELSE <<>>)
         \o TextOf(Tail(content))

JoinTextBlocks(content) == Strip(TextOf(content))

AttemptOutcome(success, output, gap_query, error_message, analysis_summary, analysis_raw) ==
    [success |-> success, output |-> output, gap_query |-> gap_query,
     error_message |-> error_message, analysis_summary |-> analysis_summary,
     analysis_raw |-> analysis_raw]

\* a parser that takes any text that is not INCOMPLETE or AMBIGUOUS for a success
ParseAnalysisOutput_Trusting(analysis_text, attempt_output) ==
    LET cleaned == Strip(analysis_text)
        rest == Strip(Tail(cleaned))
    IN  IF StartsWith(cleaned, INCOMPLETE) /\ rest # <<>>
        THEN AttemptOutcome(FALSE, attempt_output, Some(rest), None, None, Some(analysis_text))
        ELSE IF StartsWith(cleaned, INCOMPLETE) \/ StartsWith(cleaned, AMBIGUOUS)
        THEN AttemptOutcome(FALSE, attempt_output, None, Some("Analyzer returned AMBIGUOUS."),
                            None, Some(analysis_text))
        ELSE AttemptOutcome(TRUE, attempt_output, None, None, None, Some(analysis_text))

\* a parser that keeps the blanks between the INCOMPLETE prefix and the query
ParseAnalysisOutput_UntrimmedQuery(analysis_text, attempt_output) ==
    LET cleaned == Strip(analysis_text)
        rest == Tail(cleaned)
    IN  IF StartsWith(cleaned, COMPLETE)
        THEN AttemptOutcome(TRUE, attempt_output, None, None, Some(Strip(rest)),
                            Some(analysis_text))
        ELSE IF StartsWith(cleaned, INCOMPLETE) /\ Strip(rest) # <<>>
        THEN AttemptOutcome(FALSE, attempt_output, Some(rest), None, None, Some(analysis_text))
        ELSE AttemptOutcome(FALSE, attempt_output, None,
                            Some("Analyzer output did not match expected format"),
                            None, Some(analysis_text))

\* a parser that turns the detail of an AMBIGUOUS verdict into a gap query
ParseAnalysisOutput_AmbiguousAsGap(analysis_text, attempt_output) ==
    LET cleaned == Strip(analysis_text)
        rest == Strip(Tail(cleaned))
    IN  IF StartsWith(cleaned, COMPLETE)
        THEN AttemptOutcome(TRUE, attempt_output, None, None, Some(rest), Some(analysis_text))
        ELSE IF (StartsWith(cleaned, INCOMPLETE) \/ StartsWith(cleaned, AMBIGUOUS)) /\ rest # <<>>
        THEN AttemptOutcome(FALSE, attempt_output, Some(rest), None, None, Some(analysis_text))
        ELSE AttemptOutcome(FALSE, attempt_output, None,
                            Some("Analyzer output did not match expected format"),
                            None, Some(analysis_text))

ParseAnalysisOutput(analysis_text, attempt_output) ==
    LET cleaned == Strip(analysis_text)
        rest == Strip(Tail(cleaned))
    IN  IF StartsWith(cleaned, COMPLETE)
        THEN AttemptOutcome(TRUE, attempt_output, None, None, Some(rest), Some(analysis_text))
        ELSE IF StartsWith(cleaned, INCOMPLETE)
        THEN IF rest = <<>>
             THEN AttemptOutcome(FALSE, attempt_output, None,
                                 Some("Analyzer returned INCOMPLETE without a search query."),
                                 None, Some(analysis_text))
             ELSE AttemptOutcome(FALSE, attempt_output, Some(rest), None, None,
                                 Some(analysis_text))
        ELSE IF StartsWith(cleaned, AMBIGUOUS)
        THEN AttemptOutcome(FALSE, attempt_output, None, Some("Analyzer returned AMBIGUOUS."),
                            None, Some(analysis_text))
        ELSE AttemptOutcome(FALSE, attempt_output, None,
                            Some("Analyzer output did not match expected format"),
                            None, Some(analysis_text))

\* _extract_tool_use: [raised, tool_name, tool_input, text_output]
ExtractToolUse(content) ==
    LET tool_uses == SelectSeq(content, LAMBDA b : b.type = "tool_use")
        text_output == Strip(TextOf(content))
    IN  IF Len(tool_uses) # 1
        THEN [raised |-> "GapDetectionError", tool_name |-> "",
              tool_input |-> [f \in Fields |-> NoneV], text_output |-> text_output]
        ELSE [raised |-> "", tool_name |-> tool_uses[1].name,
              tool_input |-> tool_uses[1].input, text_output |-> text_output]

\* a field check that accepts any string, blank ones included
RequireToolField_AcceptsBlank(tool_input, field) ==
    LET value == tool_input[field]
    IN  IF value.type # "str"
        THEN [raised |-> "GapDetectionError", value |-> <<>>]
        ELSE [raised |-> "", value |-> Strip(value.text)]

\* _require_tool_field: [raised, value]
RequireToolField(tool_input, field) ==
    LET value == tool_input[field]
    IN  IF value.type # "str" \/ Strip(value.text) = <<>>
        THEN [raised |-> "GapDetectionError", value |-> <<>>]
        ELSE [raised |-> "", value |-> Strip(value.text)]

TeacherResult(success, tr, final_output, attempts, gaps) ==
    [success |-> success, trace |-> tr, final_output |-> final_output,
     attempts |-> attempts, gaps_filled |-> gaps]

\* a record that counts the attempts from zero
TraceEntry_ZeroBased(n, tool_call) ==
    [attempt |-> n - 1, tool_call |-> tool_call, tool_summary |-> None, gap_reason |-> None,
     analysis_output |-> None, analysis_summary |-> None, gap_query |-> None,
     gap_sources_added |-> None, gap_search_failed |-> FALSE]

\* the keys of trace_entry the session writes after the model call (the keys
\* input, text_output, tool_input and model are fixed by the call itself)
TraceEntry(n, tool_call) ==
    [attempt |-> n, tool_call |-> tool_call, tool_summary |-> None, gap_reason |-> None,
     analysis_output |-> None, analysis_summary |-> None, gap_query |-> None,
     gap_sources_added |-> None, gap_search_failed |-> FALSE]

NoEntry == TraceEntry(0, "")

\* an enrichment that does not look at what the search found
GapSourcesFound_Always(found) == TRUE

\* line 301, `if gap_sources:`: did the gap search find anything
GapSourcesFound(found) == found # <<>>

\* a loop that runs one iteration too many
HasNextAttempt_OffByOne(done_attempts, limit) == done_attempts <= limit

\* for attempt in range(1, max_attempts + 1): is there a next iteration
HasNextAttempt(done_attempts, limit) == done_attempts < limit

(***************************************************************************)
(* Inputs: what the language model and the crawling/search service may      *)
(* answer                                                                   *)
(***************************************************************************)
SolutionVals == {NoneV, IntV, StrV(<<SP>>), StrV(<<Q>>), StrV(<<SP, PY_OK, SP>>),
                 StrV(<<Q, PY_BAD>>)}
SummaryVals == {NoneV, StrV(<<>>), StrV(<<Q, SP>>)}
QueryVals == {NoneV, StrV(<<SP>>), StrV(<<SP, Q, SP>>), StrV(<<Q, SP, STRIPE>>)}
ReasonVals == {NoneV, StrV(<<Q>>)}
ToolNames == {"task_complete", "request_documentation", "web_search"}

NoInput == [f \in Fields |-> NoneV]

\* the inputs a call of each tool may carry: the fields of its schema vary, and
\* one call carries a field of the other tool
ToolInputs(n) ==
    IF n = "task_complete"
    THEN {[NoInput EXCEPT !["solution"] = so, !["summary"] = su] :
             so \in SolutionVals, su \in SummaryVals}
    ELSE IF n = "request_documentation"
    THEN {[NoInput EXCEPT !["search_query"] = qu, !["reason"] = re] :
             qu \in QueryVals, re \in ReasonVals}
         \cup {[NoInput EXCEPT !["solution"] = StrV(<<Q>>), !["summary"] = StrV(<<Q>>)]}
    ELSE {NoInput, [f \in Fields |-> StrV(<<Q>>)]}

ToolBlocks == {ToolUse(n, inp) : n \in ToolNames, inp \in UNION {ToolInputs(m) : m \in ToolNames}}

\* complete, well-formed tool calls (for the responses with two calls)
GoodToolBlocks ==
    {ToolUse(n, [f \in Fields |-> StrV(<<Q>>)]) : n \in {"task_complete", "request_documentation"}}

ModelResponses ==
    {<<>>, <<TextBlock(<<Q>>)>>}
    \cup {<<tb>> : tb \in ToolBlocks}
    \cup {<<TextBlock(<<SP, Q>>), tb>> : tb \in GoodToolBlocks}
    \cup {<<tb1, tb2>> : tb1 \in GoodToolBlocks, tb2 \in GoodToolBlocks}

Pads == {<<>>, <<SP>>}
Heads == {<<>>, <<COMPLETE>>, <<INCOMPLETE>>, <<AMBIGUOUS>>, <<Q>>, <<Q, COMPLETE>>}
Bodies == {<<>>, <<SP>>, <<SP, Q>>, <<STRIPE, SP, Q, SP>>}

AnalysisResponses ==
    {<<>>}
    \cup {<<TextBlock(p \o h \o b)>> : p \in Pads, h \in Heads, b \in Bodies}
    \cup {<<TextBlock(<<INCOMPLETE>>), TextBlock(<<SP, Q, Q>>)>>}

SeedUrl == Url(<<"docs.", "stripe.com">>, <<"/api">>)
ItemA == Item(Url(<<"docs.", "stripe.com">>, <<"/api/", "webhooks">>), Some(<<Q, SP, Q, SP, Q>>))
ItemB == Item(Url(<<"stackoverflow.com">>, <<"/questions/", "1">>), Some(<<Q>>))
ItemC == Item(Url(<<"example.com">>, <<"/blog">>), None)
ItemD == Item(Url(<<"docs.", "stripe.com">>, <<"/api/", "charges">>), Some(<<Q, Q, Q, Q>>))
ItemSeed == Item(SeedUrl, Some(<<Q>>))

SearchReplies ==
    {Reply(TRUE, <<>>), Reply(FALSE, <<>>), Reply(FALSE, <<ItemB, ItemA>>),
     Reply(FALSE, <<ItemC>>), Reply(FALSE, <<ItemSeed>>)}
CrawlReplies == {Reply(TRUE, <<>>), Reply(FALSE, <<ItemC>>), Reply(FALSE, <<ItemD>>)}

\* build_corpus: sources as discovery hands them over (a seed, mapped pages of
\* its domain and of another, search results with and without content) and
\* sources the crawlable filter drops
SeedSource == Source(SeedUrl, None, "seed", 1, 1, None)
MappedSource == Source(ItemA.url, None, "mapped", TierToPriority(1, "mapped"), 1, None)
OtherDomainUrl == Url(<<"developer.", "x.org">>, <<"/guide">>)
OtherDomainSource == Source(OtherDomainUrl, None, "mapped", TierToPriority(2, "mapped"), 2, None)
FoundA == ToSearchedSource(ItemA)
FoundB == ToSearchedSource(ItemB)
FoundC == ToSearchedSource(ItemC)
FoundSeed == ToSearchedSource(ItemSeed)
BareGithub == Source(Url(<<"github.com">>, <<>>), None, "searched", 6, 2, Some(<<Q>>))
SocialSource == Source(Url(<<"twitter.com">>, <<"/x">>), None, "searched", 6, 2, Some(<<Q>>))

BuildSourceLists ==
    {<<>>, <<BareGithub>>, <<SocialSource, BareGithub>>, <<FoundC>>, <<FoundB>>,
     <<SeedSource>>, <<SeedSource, MappedSource>>, <<SeedSource, FoundB>>,
     <<SeedSource, FoundA, FoundA>>, <<SeedSource, BareGithub, FoundB, FoundC>>,
     <<SeedSource, OtherDomainSource>>, <<SeedSource, OtherDomainSource, FoundB>>}
BuildLimits == {0, 2, 6}

PageSeed == Item(SeedUrl, Some(<<Q, Q, Q, Q, Q, Q, Q, Q>>))
PageOther == Item(OtherDomainUrl, Some(<<Q, Q, Q, Q>>))
SeedDomainReplies ==
    {Reply(TRUE, <<>>), Reply(FALSE, <<PageSeed>>), Reply(FALSE, <<PageSeed, ItemA, PageSeed, ItemD>>)}
OtherDomainReplies == {Reply(TRUE, <<>>), Reply(FALSE, <<PageOther, ItemA>>)}
\* what the service answers to the crawls of each domain, without and with stealth
DomainReplies ==
    {[base_url \in {BaseUrl(SeedUrl), BaseUrl(OtherDomainUrl)} |->
         IF base_url = BaseUrl(SeedUrl) THEN seed ELSE other] :
       seed \in [BOOLEAN -> SeedDomainReplies], other \in [BOOLEAN -> OtherDomainReplies]}

\* add_pages_to_corpus: the source lists of an enrichment
EnrichSourceLists ==
    {<<>>, <<FoundA>>, <<FoundB, FoundA>>, <<FoundC>>, <<FoundSeed>>, <<FoundB, FoundB>>,
     <<FoundSeed, FoundC, FoundB>>}

\* the corpus the teacher session starts from: the one build_corpus leaves
\* behind for the seed alone, its crawl having returned the seed page
SeedBuildArgs == [task |-> <<Q>>, sources |-> <<SeedSource>>, limit |-> 50, stealth |-> FALSE]
SeedBuildReplies ==
    [base_url \in {BaseUrl(SeedUrl)} |->
        [s \in BOOLEAN |-> IF s THEN Reply(TRUE, <<>>) ELSE Reply(FALSE, <<PageSeed>>)]]
SeedBuilt ==
    BuildCorpus(SeedBuildArgs.task, SeedBuildArgs.sources, SeedBuildArgs.limit,
                SeedBuildArgs.stealth, SeedBuildReplies)
BuiltManifest == SeedBuilt.manifest[1]
SeedPage == BuiltManifest.pages[1]

(***************************************************************************)
(* config.py and cli.py: the credentials and the pipeline.  The environment *)
(* says which credentials are set.  teacher.py reads the credential of the  *)
(* language-model service with get_anthropic_api_key, which config.py does  *)
(* not define: it follows the contract of the configuration surface (a      *)
(* configuration error when the credential is absent).                      *)
(***************************************************************************)
Env(firecrawl, anthropic) == [firecrawl |-> firecrawl, anthropic |-> anthropic]

GetFirecrawlApiKey(env) == IF env.firecrawl THEN "" ELSE "ConfigError"
GetAnthropicApiKey(env) == IF env.anthropic THEN "" ELSE "ConfigError"

\* validate_config: the error it raises
ValidateConfig(env) == GetFirecrawlApiKey(env)

\* the stages of main after the teacher session has its client: the error the
\* first failing one raises is `later`
LaterStages(later) ==
    CASE later = "TeacherSessionError" -> <<"teacher">>
      [] later = "ValidationError" -> <<"teacher", "validate">>
      [] OTHER -> <<"teacher", "validate", "generate">>

\* main with a seed: [raised, stages], the exception that ends the pipeline
\* and the stages that acted before it ended.  The replies are those of the
\* service to the site map, the searches and the crawls.
Main(env, map_reply, search_reply, limit, stealth, replies, later) ==
    LET discovered == DiscoverSources(SeedUrl, map_reply, search_reply, Reply(TRUE, <<>>))
        built == BuildCorpus(<<Q>>, discovered.sources, limit, stealth, replies)
    IN  IF ValidateConfig(env) # ""
        THEN [raised |-> ValidateConfig(env), stages |-> <<>>]
        ELSE IF discovered.raised # ""
        THEN [raised |-> discovered.raised, stages |-> <<"discover">>]
        ELSE IF built.raised # ""
        THEN [raised |-> built.raised, stages |-> <<"discover", "build">>]
        ELSE IF GetAnthropicApiKey(env) # ""
        THEN [raised |-> GetAnthropicApiKey(env), stages |-> <<"discover", "build">>]
        ELSE [raised |-> later, stages |-> <<"discover", "build">> \o LaterStages(later)]

\* the record of a call: the function, its arguments and its result
Call(fn, args, result) == [fn |-> fn, args |-> args, result |-> result]
NoCall == Call("none", <<>>, <<>>)

\* the record of a corpus operation: its name, its sources (add_pages_to_corpus),
\* the count it returned, the exception it raised and the context it returned
CorpusOp(op, sources, added, op_raised, parts) ==
    [op |-> op, sources |-> sources, added |-> added, raised |-> op_raised, parts |-> parts]
NoOp == CorpusOp("none", <<>>, 0, "", <<>>)

\* what a running build_corpus or add_pages_to_corpus has still to write: the
\* page files, in the order of its _write_page calls, and then the manifest
Pending(writes, manifest_due, new_manifest) ==
    [writes |-> writes, manifest_due |-> manifest_due, manifest |-> new_manifest]
NoPending == Pending(<<>>, FALSE, None)

(***************************************************************************)
(* run_teacher_session                                                      *)
(***************************************************************************)
Init ==
    /\ max_attempts \in 0..MaxAttempts
    /\ attempt = 0
    /\ pc = "loop"
    /\ corpus_context = <<>>
    /\ response = <<>>
    /\ trace = <<>>
    /\ gaps_filled = <<>>
    /\ trace_entry = NoEntry
    /\ solution = <<>>
    /\ outcome = None
    /\ manifest = Some(BuiltManifest)
    /\ files = SeedBuilt.files
    /\ model_calls = 0
    /\ analysis_calls = 0
    /\ gap_searches = <<>>
    /\ enrich_calls = 0
    /\ gap_sources = <<>>
    /\ raised = ""
    /\ returned = None
    /\ cpc = "built"
    /\ build_args = Some(SeedBuildArgs)
    /\ build_raised = ""
    /\ crawl_log = SeedBuilt.calls
    /\ last_op = NoOp
    /\ ops = 0
    /\ pending = NoPending
    /\ last_call = NoCall

Raise(exception) ==
    /\ raised' = exception
    /\ pc' = "done"

\* a session that loads the corpus once and reuses the context of the first
\* attempt in the later ones
BeginAttempt_LoadsOnce(content) ==
    /\ pc = "loop"
    /\ HasNextAttempt(attempt, max_attempts)
    /\ attempt' = attempt + 1
    /\ UNCHANGED <<cvars, lvars, max_attempts, trace, gaps_filled, manifest, files, analysis_calls,
                   gap_searches, enrich_calls, gap_sources, returned>>
    /\ IF ~CorpusLoads(manifest, files)
       THEN /\ Raise("CorpusLoadError")
            /\ UNCHANGED <<corpus_context, response, model_calls, trace_entry, solution, outcome>>
       ELSE /\ corpus_context' = IF attempt = 0
                                   THEN LoadCorpusAsContext(manifest, files).parts
                                   ELSE corpus_context
            /\ model_calls' = model_calls + 1
            /\ response' = content
            /\ LET ext == ExtractToolUse(content)
                   sol == RequireToolField(ext.tool_input, "solution")
                   sum == RequireToolField(ext.tool_input, "summary")
                   qry == RequireToolField(ext.tool_input, "search_query")
                   rsn == RequireToolField(ext.tool_input, "reason")
                   entry == TraceEntry(attempt + 1, ext.tool_name)
               IN  IF ext.raised # ""
                   THEN /\ Raise(ext.raised)
                        /\ UNCHANGED <<trace_entry, solution, outcome>>
                   ELSE IF ext.tool_name = "task_complete"
                   THEN IF sol.raised # "" \/ sum.raised # ""
                        THEN /\ Raise("GapDetectionError")
                             /\ trace_entry' = entry
                             /\ UNCHANGED <<solution, outcome>>
                        ELSE /\ solution' = sol.value
                             /\ trace_entry' = [entry EXCEPT !.tool_summary = Some(sum.value)]
                             /\ outcome' = None
                             /\ pc' = "analysis"
                             /\ UNCHANGED raised
                   ELSE IF ext.tool_name = "request_documentation"
                   THEN IF qry.raised # "" \/ rsn.raised # ""
                        THEN /\ Raise("GapDetectionError")
                             /\ trace_entry' = entry
                             /\ UNCHANGED <<solution, outcome>>
                        ELSE /\ trace_entry' = [entry EXCEPT !.gap_reason = Some(rsn.value)]
                             /\ outcome' = Some(AttemptOutcome(FALSE, ext.text_output,
                                                               Some(qry.value), None, None, None))
                             /\ pc' = "decide"
                             /\ UNCHANGED <<solution, raised>>
                   ELSE /\ Raise("GapDetectionError")
                        /\ trace_entry' = entry
                        /\ UNCHANGED <<solution, outcome>>

\* lines 235-280: the head of one loop iteration, up to the call of the
\* analysis (task_complete) or to the outcome (request_documentation)
BeginAttempt(content) ==
    /\ pc = "loop"
    /\ HasNextAttempt(attempt, max_attempts)
    /\ attempt' = attempt + 1
    /\ UNCHANGED <<cvars, lvars, max_attempts, trace, gaps_filled, manifest, files, analysis_calls,
                   gap_searches, enrich_calls, gap_sources, returned>>
    /\ IF ~CorpusLoads(manifest, files)
       THEN /\ Raise("CorpusLoadError")
            /\ UNCHANGED <<corpus_context, response, model_calls, trace_entry, solution, outcome>>
       ELSE /\ corpus_context' = LoadCorpusAsContext(manifest, files).parts
            /\ model_calls' = model_calls + 1
            /\ response' = content
            /\ LET ext == ExtractToolUse(content)
                   sol == RequireToolField(ext.tool_input, "solution")
                   sum == RequireToolField(ext.tool_input, "summary")
                   qry == RequireToolField(ext.tool_input, "search_query")
                   rsn == RequireToolField(ext.tool_input, "reason")
                   entry == TraceEntry(attempt + 1, ext.tool_name)
               IN  IF ext.raised # ""
                   THEN /\ Raise(ext.raised)
                        /\ UNCHANGED <<trace_entry, solution, outcome>>
                   ELSE IF ext.tool_name = "task_complete"
                   THEN IF sol.raised # "" \/ sum.raised # ""
                        THEN /\ Raise("GapDetectionError")
                             /\ trace_entry' = entry
                             /\ UNCHANGED <<solution, outcome>>
                        ELSE /\ solution' = sol.value
                             /\ trace_entry' = [entry EXCEPT !.tool_summary = Some(sum.value)]
                             /\ outcome' = None
                             /\ pc' = "analysis"
                             /\ UNCHANGED raised
                   ELSE IF ext.tool_name = "request_documentation"
                   THEN IF qry.raised # "" \/ rsn.raised # ""
                        THEN /\ Raise("GapDetectionError")
                             /\ trace_entry' = entry
                             /\ UNCHANGED <<solution, outcome>>
                        ELSE /\ trace_entry' = [entry EXCEPT !.gap_reason = Some(rsn.value)]
                             /\ outcome' = Some(AttemptOutcome(FALSE, ext.text_output,
                                                               Some(qry.value), None, None, None))
                             /\ pc' = "decide"
                             /\ UNCHANGED <<solution, raised>>
                   ELSE /\ Raise("GapDetectionError")
                        /\ trace_entry' = entry
                        /\ UNCHANGED <<solution, outcome>>

\* a second pass that is run once more after its first verdict of the session
RunAnalysis_Repeats(content) ==
    /\ pc = "analysis"
    /\ analysis_calls' = analysis_calls + 1
    /\ LET o == ParseAnalysisOutput(JoinTextBlocks(content), solution)
       IN  /\ outcome' = Some(o)
           /\ trace_entry' = [trace_entry EXCEPT
                                !.analysis_output = o.analysis_raw,
                                !.analysis_summary = IF Truthy(o.analysis_summary)
                                                     THEN o.analysis_summary ELSE None]
    /\ pc' = IF analysis_calls < attempt THEN "analysis" ELSE "decide"
    /\ UNCHANGED <<cvars, lvars, corpus_context, max_attempts, attempt, response, trace, gaps_filled, solution, manifest, files,
                   model_calls, gap_searches, enrich_calls, gap_sources, raised, returned>>

\* lines 271-274 with _run_analysis: the second pass over the claimed solution
RunAnalysis(content) ==
    /\ pc = "analysis"
    /\ analysis_calls' = analysis_calls + 1
    /\ LET o == ParseAnalysisOutput(JoinTextBlocks(content), solution)
       IN  /\ outcome' = Some(o)
           /\ trace_entry' = [trace_entry EXCEPT
                                !.analysis_output = o.analysis_raw,
                                !.analysis_summary = IF Truthy(o.analysis_summary)
                                                     THEN o.analysis_summary ELSE None]
    /\ pc' = "decide"
    /\ UNCHANGED <<cvars, lvars, corpus_context, max_attempts, attempt, response, trace, gaps_filled, solution, manifest, files,
                   model_calls, gap_searches, enrich_calls, gap_sources, raised, returned>>

\* a return that forgets to append the record of the successful attempt
ReturnSuccess_DropsLastEntry ==
    /\ pc = "decide"
    /\ outcome[1].success
    /\ returned' = Some(TeacherResult(TRUE, trace, outcome[1].output, attempt, gaps_filled))
    /\ pc' = "done"
    /\ UNCHANGED <<cvars, lvars, corpus_context, max_attempts, attempt, response, trace, gaps_filled, trace_entry, solution,
                   outcome, manifest, files, model_calls, analysis_calls, gap_searches,
                   enrich_calls, gap_sources, raised>>

\* lines 285-293
ReturnSuccess ==
    /\ pc = "decide"
    /\ outcome[1].success
    /\ trace' = Append(trace, trace_entry)
    /\ returned' = Some(TeacherResult(TRUE, trace', outcome[1].output, attempt, gaps_filled))
    /\ pc' = "done"
    /\ UNCHANGED <<cvars, lvars, corpus_context, max_attempts, attempt, response, gaps_filled, trace_entry, solution, outcome,
                   manifest, files, model_calls, analysis_calls, gap_searches, enrich_calls,
                   gap_sources, raised>>

\* lines 295-311: the gap search, the enrichment and the record of the attempt.
\* search_for_gap catches every failure of the search and of the crawl itself,
\* so the except branch of line 305 is never entered.
GapSearch(search_reply, crawl_reply) ==
    /\ pc = "decide"
    /\ ~outcome[1].success
    /\ Truthy(outcome[1].gap_query)
    /\ LET query == outcome[1].gap_query[1]
           entry == [trace_entry EXCEPT !.gap_query = Some(query)]
           found == SearchForGap(query, search_reply, crawl_reply)
       IN  /\ gap_searches' = Append(gap_searches, query)
           /\ gap_sources' = found
           /\ IF GapSourcesFound(found)
              THEN IF manifest = None
                   THEN /\ Raise("CorpusUpdateError")
                        /\ enrich_calls' = enrich_calls + 1
                        /\ trace_entry' = entry
                        /\ UNCHANGED <<manifest, files, gaps_filled, trace>>
                   ELSE LET r == AddPagesToCorpus(manifest[1], found)
                        IN  /\ enrich_calls' = enrich_calls + 1
                            /\ manifest' = Some(r.manifest)
                            /\ files' = WriteAll(files, r.written)
                            /\ gaps_filled' = Append(gaps_filled, query)
                            /\ trace_entry' = [entry EXCEPT !.gap_sources_added = Some(r.added)]
                            /\ trace' = Append(trace, trace_entry')
                            /\ pc' = "loop"
                            /\ UNCHANGED raised
              ELSE /\ trace_entry' = entry
                   /\ trace' = Append(trace, entry)
                   /\ pc' = "loop"
                   /\ UNCHANGED <<manifest, files, gaps_filled, enrich_calls, raised>>
    /\ UNCHANGED <<cvars, lvars, corpus_context, max_attempts, attempt, response, solution, outcome, model_calls, analysis_calls,
                   returned>>

\* an attempt without a gap that is recorded and followed by the next attempt
RaiseAnalysisError_Continues ==
    /\ pc = "decide"
    /\ ~outcome[1].success
    /\ ~Truthy(outcome[1].gap_query)
    /\ trace' = Append(trace, trace_entry)
    /\ pc' = "loop"
    /\ UNCHANGED <<cvars, lvars, corpus_context, max_attempts, attempt, response, gaps_filled, trace_entry, solution, outcome,
                   manifest, files, model_calls, analysis_calls, gap_searches, enrich_calls,
                   gap_sources, raised, returned>>

\* an attempt without a gap that is reported as an exhausted budget
RaiseAnalysisError_AsSessionError ==
    /\ pc = "decide"
    /\ ~outcome[1].success
    /\ ~Truthy(outcome[1].gap_query)
    /\ trace' = Append(trace, trace_entry)
    /\ Raise("TeacherSessionError")
    /\ UNCHANGED <<cvars, lvars, corpus_context, max_attempts, attempt, response, gaps_filled, trace_entry, solution, outcome,
                   manifest, files, model_calls, analysis_calls, gap_searches, enrich_calls,
                   gap_sources, returned>>

\* lines 312-318
RaiseAnalysisError ==
    /\ pc = "decide"
    /\ ~outcome[1].success
    /\ ~Truthy(outcome[1].gap_query)
    /\ trace' = Append(trace, trace_entry)
    /\ Raise("AnalysisError")
    /\ UNCHANGED <<cvars, lvars, corpus_context, max_attempts, attempt, response, gaps_filled, trace_entry, solution, outcome,
                   manifest, files, model_calls, analysis_calls, gap_searches, enrich_calls,
                   gap_sources, returned>>

\* line 320: the loop is exhausted
RaiseTeacherSessionError ==
    /\ pc = "loop"
    /\ ~HasNextAttempt(attempt, max_attempts)
    /\ Raise("TeacherSessionError")
    /\ UNCHANGED <<cvars, lvars, corpus_context, max_attempts, attempt, response, trace, gaps_filled, trace_entry, solution, outcome,
                   manifest, files, model_calls, analysis_calls, gap_searches, enrich_calls,
                   gap_sources, returned>>

Next ==
    \/ \E content \in ModelResponses : BeginAttempt(content)
    \/ \E content \in AnalysisResponses : RunAnalysis(content)
    \/ ReturnSuccess
    \/ \E search_reply \in SearchReplies, crawl_reply \in CrawlReplies :
          GapSearch(search_reply, crawl_reply)
    \/ RaiseAnalysisError
    \/ RaiseTeacherSessionError

Spec == Init /\ [][Next]_vars

(***************************************************************************)
(* The life of a corpus directory: one build_corpus, then                  *)
(* add_pages_to_corpus and load_corpus_as_context in any order, while      *)
(* page files or the manifest may disappear or be emptied from outside.    *)
(***************************************************************************)
CorpusInit ==
    /\ max_attempts = 0
    /\ attempt = 0
    /\ pc = "idle"
    /\ corpus_context = <<>>
    /\ response = <<>>
    /\ trace = <<>>
    /\ gaps_filled = <<>>
    /\ trace_entry = NoEntry
    /\ solution = <<>>
    /\ outcome = None
    /\ manifest = None
    /\ files = NoFiles
    /\ model_calls = 0
    /\ analysis_calls = 0
    /\ gap_searches = <<>>
    /\ enrich_calls = 0
    /\ gap_sources = <<>>
    /\ raised = ""
    /\ returned = None
    /\ cpc = "new"
    /\ build_args = None
    /\ build_raised = ""
    /\ crawl_log = <<>>
    /\ last_op = NoOp
    /\ ops = 0
    /\ pending = NoPending
    /\ last_call = NoCall

\* build_corpus(task, sources, limit, stealth)
Build(sources, limit, stealth, replies) ==
    /\ cpc = "new"
    /\ LET built == BuildCorpus(<<Q>>, sources, limit, stealth, replies)
       IN  /\ cpc' = IF built.raised = "" THEN "built" ELSE "failed"
           /\ build_raised' = built.raised
           /\ manifest' = built.manifest
           /\ files' = built.files
           /\ crawl_log' = built.calls
           /\ last_op' = CorpusOp("build", sources, 0,
                                  IF built.raised = "" THEN "" ELSE "CorpusBuildError", <<>>)
    /\ build_args' = Some([task |-> <<Q>>, sources |-> sources, limit |-> limit,
                           stealth |-> stealth])
    /\ UNCHANGED <<tvars, lvars, pending, ops>>

\* an enrichment that writes its pages before it looks for the manifest
Enrich_WritesBeforeManifestCheck(sources) ==
    /\ cpc = "built"
    /\ ops < MaxOps
    /\ ops' = ops + 1
    /\ IF manifest = None
       THEN /\ last_op' = CorpusOp("enrich", sources, 0, "CorpusUpdateError", <<>>)
            /\ files' = WriteAll(files, NewWrites(sources, {}, 1))
            /\ UNCHANGED manifest
       ELSE LET r == AddPagesToCorpus(manifest[1], sources)
            IN  /\ manifest' = Some(r.manifest)
                /\ files' = WriteAll(files, r.written)
                /\ last_op' = CorpusOp("enrich", sources, r.added, "", <<>>)
    /\ UNCHANGED <<tvars, lvars, pending, cpc, build_args, build_raised, crawl_log>>

\* add_pages_to_corpus(corpus_path, sources)
Enrich(sources) ==
    /\ cpc = "built"
    /\ ops < MaxOps
    /\ ops' = ops + 1
    /\ IF manifest = None
       THEN /\ last_op' = CorpusOp("enrich", sources, 0, "CorpusUpdateError", <<>>)
            /\ UNCHANGED <<manifest, files>>
       ELSE LET r == AddPagesToCorpus(manifest[1], sources)
            IN  /\ manifest' = Some(r.manifest)
                /\ files' = WriteAll(files, r.written)
                /\ last_op' = CorpusOp("enrich", sources, r.added, "", <<>>)
    /\ UNCHANGED <<tvars, lvars, pending, cpc, build_args, build_raised, crawl_log>>

\* load_corpus_as_context(corpus_path)
Load ==
    /\ cpc = "built"
    /\ LET r == LoadCorpusAsContext(manifest, files)
       IN  last_op' = CorpusOp("load", <<>>, 0, r.raised, r.parts)
    /\ UNCHANGED <<tvars, lvars, pending, manifest, files, cpc, build_args, build_raised, crawl_log, ops>>

\* the directory changes from outside: a page file disappears or is emptied
PageFileLost(name, emptied) ==
    /\ cpc = "built"
    /\ ops < MaxOps
    /\ ops' = ops + 1
    /\ name \in DOMAIN files
    /\ files' = IF emptied
                THEN [files EXCEPT ![name] = [frontmatter |-> None, text |-> <<>>]]
                ELSE [n \in DOMAIN files \ {name} |-> files[n]]
    /\ last_op' = CorpusOp("outside", <<>>, 0, "", <<>>)
    /\ UNCHANGED <<tvars, lvars, pending, manifest, cpc, build_args, build_raised, crawl_log>>

\* the directory changes from outside: manifest.json disappears
ManifestLost ==
    /\ cpc = "built"
    /\ ops < MaxOps
    /\ ops' = ops + 1
    /\ manifest # None
    /\ manifest' = None
    /\ last_op' = CorpusOp("outside", <<>>, 0, "", <<>>)
    /\ UNCHANGED <<tvars, lvars, pending, files, cpc, build_args, build_raised, crawl_log>>

CorpusNext ==
    \/ \E sources \in BuildSourceLists, limit \in BuildLimits, stealth \in BOOLEAN,
          replies \in DomainReplies : Build(sources, limit, stealth, replies)
    \/ \E sources \in EnrichSourceLists : Enrich(sources)
    \/ Load
    \/ \E name \in DOMAIN files, emptied \in BOOLEAN : PageFileLost(name, emptied)
    \/ ManifestLost

CorpusSpec == CorpusInit /\ [][CorpusNext]_vars

\* a teacher session whose corpus directory changes from outside, once, between
\* two attempts (or before the first one)
SessionNext ==
    \/ Next
    \/ /\ pc = "loop" /\ ops = 0
       /\ \E name \in DOMAIN files, emptied \in BOOLEAN : PageFileLost(name, emptied)
    \/ /\ pc = "loop" /\ ops = 0
       /\ ManifestLost

SessionSpec == Init /\ [][SessionNext]_vars

(***************************************************************************)
(* build_corpus and add_pages_to_corpus write by write: every _write_page   *)
(* call and the write of manifest.json is a step of its own                 *)
(***************************************************************************)
NothingPending == pending.writes = <<>> /\ ~pending.manifest_due

\* build_corpus up to its first write: the crawls are made as the loop goes,
\* and the pages they return are written in the order of the loop
StartBuild(sources, limit, stealth, replies) ==
    /\ cpc = "new"
    /\ NothingPending
    /\ LET built == BuildCorpus(<<Q>>, sources, limit, stealth, replies)
       IN  /\ cpc' = IF built.raised = "" THEN "built" ELSE "failed"
           /\ build_raised' = built.raised
           /\ crawl_log' = built.calls
           /\ last_op' = CorpusOp("build", sources, 0,
                                  IF built.raised = "" THEN "" ELSE "CorpusBuildError", <<>>)
           /\ pending' = Pending(BuildWrites(<<Q>>, sources, limit, stealth, replies),
                                 built.raised = "", built.manifest)
    /\ build_args' = Some([task |-> <<Q>>, sources |-> sources, limit |-> limit,
                           stealth |-> stealth])
    /\ UNCHANGED <<tvars, lvars, manifest, files, ops>>

\* add_pages_to_corpus up to its first write
StartEnrich(sources) ==
    /\ cpc = "built"
    /\ NothingPending
    /\ ops < MaxOps
    /\ ops' = ops + 1
    /\ IF manifest = None
       THEN /\ last_op' = CorpusOp("enrich", sources, 0, "CorpusUpdateError", <<>>)
            /\ UNCHANGED pending
       ELSE LET r == AddPagesToCorpus(manifest[1], sources)
            IN  /\ pending' = Pending(r.written, r.added > 0, Some(r.manifest))
                /\ last_op' = CorpusOp("enrich", sources, r.added, "", <<>>)
    /\ UNCHANGED <<tvars, lvars, manifest, files, cpc, build_args, build_raised, crawl_log>>

\* _write_page, lines 77-112: the next page file is written
WritePageStep ==
    /\ pending.writes # <<>>
    /\ files' = WriteText(files, Head(pending.writes))
    /\ pending' = [pending EXCEPT !.writes = Tail(@)]
    /\ UNCHANGED <<tvars, lvars, manifest, cpc, build_args, build_raised, crawl_log, last_op, ops>>

\* a manifest that is written while page files are still to be written
WriteManifestStep_BeforePages ==
    /\ pending.manifest_due
    /\ manifest' = pending.manifest
    /\ pending' = [pending EXCEPT !.manifest_due = FALSE]
    /\ UNCHANGED <<tvars, lvars, files, cpc, build_args, build_raised, crawl_log, last_op, ops>>

\* corpus.py 334-337 and 436-438: manifest.json is written after the loops
\* that write the pages
WriteManifestStep ==
    /\ pending.manifest_due
    /\ pending.writes = <<>>
    /\ manifest' = pending.manifest
    /\ pending' = [pending EXCEPT !.manifest_due = FALSE]
    /\ UNCHANGED <<tvars, lvars, files, cpc, build_args, build_raised, crawl_log, last_op, ops>>

WriteNext ==
    \/ \E sources \in BuildSourceLists, limit \in BuildLimits, stealth \in BOOLEAN,
          replies \in DomainReplies : StartBuild(sources, limit, stealth, replies)
    \/ \E sources \in EnrichSourceLists : StartEnrich(sources)
    \/ WritePageStep
    \/ WriteManifestStep

WriteSpec == CorpusInit /\ [][WriteNext]_vars

(***************************************************************************)
(* Properties of the teacher session                                        *)
(***************************************************************************)
Done == pc = "done"
Succeeded == returned # None
LastEntry == trace[Len(trace)]

\* the verdict a raw analyzer text carries, read off the text itself
VerdictOf(raw) ==
    LET c == Strip(raw)
    IN  IF c = <<>> THEN "UNRECOGNISED"
        ELSE IF Head(c) = COMPLETE THEN "COMPLETE"
        ELSE IF Head(c) = INCOMPLETE THEN "INCOMPLETE"
        ELSE IF Head(c) = AMBIGUOUS THEN "AMBIGUOUS"
        ELSE "UNRECOGNISED"

\* the text after the verdict prefix, trimmed
DetailOf(raw) == Strip(Tail(Strip(raw)))

EntryVerdict(e) == IF e.analysis_output = None THEN "NONE" ELSE VerdictOf(e.analysis_output[1])

\* the running attempt got a second-pass verdict that names no gap
NoGapVerdict(e) ==
    \/ EntryVerdict(e) \in {"AMBIGUOUS", "UNRECOGNISED"}
    \/ EntryVerdict(e) = "INCOMPLETE" /\ DetailOf(e.analysis_output[1]) = <<>>

\* the running attempt got the verdict INCOMPLETE: <query>
GapVerdict(e) == EntryVerdict(e) = "INCOMPLETE" /\ DetailOf(e.analysis_output[1]) # <<>>

\* C1: a TeacherResult is returned only by an attempt whose tool call was
\* task_complete and whose second-pass analysis text is a COMPLETE verdict; while
\* a task_complete claim still awaits its analysis nothing has been returned.
C1_SuccessOnlyAfterCompleteVerdict ==
    /\ Succeeded =>
          /\ returned[1].success
          /\ returned[1].trace # <<>>
          /\ LET last == returned[1].trace[Len(returned[1].trace)]
             IN  /\ last.attempt = returned[1].attempts
                 /\ last.tool_call = "task_complete"
                 /\ EntryVerdict(last) = "COMPLETE"
          /\ analysis_calls >= 1
    /\ pc = "analysis" => ~Succeeded
    /\ (pc = "decide" /\ EntryVerdict(trace_entry) # "COMPLETE") => ~outcome[1].success

\* C1 witness: the session succeeded at its second attempt
C1_Witness ==
    /\ Succeeded
    /\ returned[1].attempts = 2
    /\ EntryVerdict(LastEntry) = "COMPLETE"

\* C2: a session never succeeds with a solution the shadow validator rejects
\* (here: a solution holding a python block with a syntax error).
C2_RejectedSolutionNeverSucceeds ==
    Succeeded => ShadowValidateOutput(returned[1].final_output, None).passed

\* the steps of one session, in order; every step moves the session forward
Rank ==
    IF Done THEN 4 * max_attempts + 4
    ELSE 4 * attempt + (CASE pc = "loop" -> 3 [] pc = "analysis" -> 1 [] pc = "decide" -> 2)

\* C3: the session makes at most max_attempts first-pass model calls (none when
\* max_attempts = 0); it ends in success, in GapDetectionError or AnalysisError,
\* or in TeacherSessionError after exactly max_attempts attempts; every step
\* moves it forward in a bounded order, and it stops only when done.
C3_AtMostMaxAttemptsModelCalls ==
    /\ [](/\ model_calls = attempt
          /\ model_calls <= max_attempts
          /\ Done =>
                \/ Succeeded /\ raised = ""
                \/ ~Succeeded /\ raised \in {"AnalysisError", "GapDetectionError"}
                \/ /\ ~Succeeded
                   /\ raised = "TeacherSessionError"
                   /\ model_calls = max_attempts
                   /\ Len(trace) = max_attempts
          /\ ~Done => ENABLED Next
          /\ Rank <= 4 * max_attempts + 4)
    /\ [][Rank' > Rank]_vars

\* C3 witness: a budget of two attempts is used up
C3_Witness ==
    /\ Done
    /\ raised = "TeacherSessionError"
    /\ max_attempts = 2
    /\ model_calls = 2

\* C4: when the second pass names no gap (AMBIGUOUS, unrecognised text, or
\* INCOMPLETE without a query) the next step ends the session with AnalysisError
\* at the same attempt, with no gap search, no enrichment and no further model
\* call, whatever budget remains; and nothing happens after the end.
C4_NoGapVerdictIsTerminal ==
    [][/\ (pc = "decide" /\ NoGapVerdict(trace_entry)) =>
             /\ pc' = "done"
             /\ raised' = "AnalysisError"
             /\ returned' = None
             /\ UNCHANGED <<attempt, model_calls, gap_searches, enrich_calls, manifest, files,
                            gaps_filled>>
       /\ Done => UNCHANGED vars]_vars

\* C4 witness: INCOMPLETE without a query ended the session with budget left
C4_Witness ==
    /\ Done
    /\ raised = "AnalysisError"
    /\ attempt < max_attempts
    /\ EntryVerdict(LastEntry) = "INCOMPLETE"
    /\ gap_searches = <<>>

AllAttemptsGapped ==
    /\ Len(trace) = max_attempts
    /\ \A i \in 1..Len(trace) : Truthy(trace[i].gap_query)

\* C5: at the end of a session TeacherSessionError is the error exactly when all
\* max_attempts attempts were recorded with a gap query, and AnalysisError only
\* when the last attempt has no gap query.
C5_ExhaustionAndAmbiguityDistinct ==
    Done =>
        /\ (raised = "TeacherSessionError") <=> AllAttemptsGapped
        /\ raised = "AnalysisError" =>
              /\ trace # <<>>
              /\ ~Truthy(LastEntry.gap_query)
              /\ Len(trace) = attempt

\* C5 witness: two attempts, the first a documentation request, the second an
\* INCOMPLETE verdict, exhaust a budget of two
C5_Witness ==
    /\ Done
    /\ raised = "TeacherSessionError"
    /\ Len(trace) = 2
    /\ trace[1].tool_call = "request_documentation"
    /\ GapVerdict(trace[2])

C7_FailedGapSearchIsNotFatal ==
    [][/\ (pc = "decide" /\ pc' # "decide" /\ Truthy(outcome[1].gap_query)
           /\ ~outcome[1].success /\ gap_sources' = <<>>) =>
             /\ manifest' = manifest
             /\ files' = files
             /\ gaps_filled' = gaps_filled
             /\ Len(trace') = Len(trace) + 1
             /\ SubSeq(trace', 1, Len(trace)) = trace
             /\ trace'[Len(trace')].attempt = attempt
             /\ trace'[Len(trace')].gap_query = outcome[1].gap_query
             /\ trace'[Len(trace')].gap_sources_added = None
             /\ raised' = ""
             /\ pc' = "loop"
       /\ (pc = "loop" /\ raised = "" /\ attempt < max_attempts) => pc' # "loop"]_vars

\* C7 witness: the second attempt is running after a gap search that found nothing
C7_Witness ==
    /\ attempt = 2
    /\ pc \in {"analysis", "decide"}
    /\ Len(trace) = 1
    /\ Truthy(trace[1].gap_query)
    /\ trace[1].gap_sources_added = None
    /\ Len(gap_searches) = 1
    /\ gaps_filled = <<>>
    /\ manifest = Some(BuiltManifest)

\* C8 as stated: an AMBIGUOUS verdict ends the session only when no retry is
\* left: the first one of a session, with attempts remaining, is followed by a
\* further attempt.
C8_AmbiguousTerminalOnlyWithoutBudget ==
    (Done /\ raised = "AnalysisError" /\ EntryVerdict(LastEntry) = "AMBIGUOUS") =>
        \/ attempt = max_attempts
        \/ \E i \in 1..(Len(trace) - 1) : EntryVerdict(trace[i]) = "AMBIGUOUS"

\* C8 amended: an AMBIGUOUS verdict always ends the session: the attempt that
\* receives it is the last record of the trace, the session has ended with
\* AnalysisError, and no attempt ever follows an AMBIGUOUS verdict.
C8_AmbiguousAlwaysTerminal ==
    /\ \A i \in 1..Len(trace) :
          EntryVerdict(trace[i]) = "AMBIGUOUS" =>
              /\ i = Len(trace)
              /\ Done
              /\ raised = "AnalysisError"
              /\ attempt = i
    /\ (pc = "decide" /\ EntryVerdict(trace_entry) = "AMBIGUOUS") => ~Truthy(outcome[1].gap_query)

\* C8 witness: the first AMBIGUOUS verdict ended a session that had budget left
C8_Witness ==
    /\ Done
    /\ raised = "AnalysisError"
    /\ EntryVerdict(LastEntry) = "AMBIGUOUS"
    /\ DetailOf(LastEntry.analysis_output[1]) # <<>>
    /\ attempt = 1
    /\ max_attempts = 2

\* C9 as stated: every finished session has produced a TeacherResult.
C9_EveryEndProducesResult == Done => Succeeded

\* C9 amended: a TeacherResult is produced on success only: a finished session
\* has either returned one successful result that carries the whole trace, one
\* record per attempt, or raised an error and returned nothing; a running
\* session has returned nothing.
C9_ResultOnlyOnSuccess ==
    /\ Done => (Succeeded <=> raised = "")
    /\ ~Done => (~Succeeded /\ raised = "")
    /\ Succeeded =>
          /\ returned[1].success
          /\ returned[1].trace = trace
          /\ returned[1].attempts = attempt
          /\ Len(returned[1].trace) = returned[1].attempts
          /\ returned[1].gaps_filled = gaps_filled
          /\ returned[1].final_output = solution

\* C9 witness: a session ended by an error after recording an attempt, without
\* a result
C9_Witness ==
    /\ Done
    /\ raised \in {"AnalysisError", "GapDetectionError", "TeacherSessionError"}
    /\ trace # <<>>
    /\ ~Succeeded

ToolUses(content) == SelectSeq(content, LAMBDA b : b.type = "tool_use")

NonBlank(v) == v.type = "str" /\ \E i \in 1..Len(v.text) : v.text[i] # SP

\* a first-pass response that is not exactly one well-formed call of one of the
\* two tools
Malformed(content) ==
    \/ Len(ToolUses(content)) # 1
    \/ LET call == ToolUses(content)[1]
       IN  \/ call.name \notin {"task_complete", "request_documentation"}
           \/ /\ call.name = "task_complete"
              /\ ~(NonBlank(call.input["solution"]) /\ NonBlank(call.input["summary"]))
           \/ /\ call.name = "request_documentation"
              /\ ~(NonBlank(call.input["search_query"]) /\ NonBlank(call.input["reason"]))

\* C10: once an attempt received a malformed first-pass response the session is
\* over with GapDetectionError, and for that attempt there was no analysis call,
\* no gap search, no enrichment and no record; no attempt follows.
C10_MalformedResponseIsTerminal ==
    (attempt >= 1 /\ Malformed(response)) =>
        /\ Done
        /\ raised = "GapDetectionError"
        /\ ~Succeeded
        /\ model_calls = attempt
        /\ Len(trace) = attempt - 1
        /\ Len(gap_searches) = attempt - 1
        /\ analysis_calls <= attempt - 1
        /\ enrich_calls <= attempt - 1
        /\ \A i \in 1..Len(trace) : trace[i].attempt < attempt

\* C10 witness: the second attempt answered with two tool calls
C10_Witness ==
    /\ attempt = 2
    /\ Len(ToolUses(response)) = 2
    /\ Done
    /\ raised = "GapDetectionError"

(***************************************************************************)
(* The functions of the package called on their own, one call after the    *)
(* other, with arguments of any kind.                                       *)
(***************************************************************************)
CallInit == CorpusInit

SourceTiers == 1..3

\* the sequences over a set, up to a length
RECURSIVE SeqsUpTo(_, _)
SeqsUpTo(S, n) ==
    IF n = 0 THEN {<<>>}
    ELSE LET shorter == SeqsUpTo(S, n - 1)
         IN  shorter \cup {Append(q, x) : q \in shorter, x \in S}

\* sources to deduplicate: the same page with and without a slash at the end
\* and with different priorities, and another page
DedupUrl == Url(<<"docs.", "stripe.com">>, <<"/guide">>)
DedupUrlSlash == Url(<<"docs.", "stripe.com">>, <<"/guide", "/">>)
DedupSources ==
    {Source(DedupUrl, None, "mapped", 2, 1, None),
     Source(DedupUrlSlash, None, "searched", 3, 1, Some(<<Q>>)),
     Source(DedupUrlSlash, None, "seed", 1, 1, None),
     Source(ItemB.url, None, "searched", 9, 3, Some(<<Q>>)),
     Source(ItemB.url, Some(<<Q>>), "searched", 9, 3, None)}
SourceTypes == {"seed", "mapped", "searched"}

\* _tier_to_priority(tier, source_type)
\* every function but _tier_to_priority is called once, in the initial
\* state; _tier_to_priority is called again and again, so that the results
\* of two calls are compared
FirstCall == last_call.fn = NoCall.fn

TierToPriorityCall(tier, source_type) ==
    /\ last_call' = Call("_tier_to_priority", [tier |-> tier, source_type |-> source_type],
                         TierToPriority(tier, source_type))
    /\ UNCHANGED <<tvars, cvars, manifest, files>>

\* discover_sources: the seeds, the site maps and the replies to the searches
DiscoverSeeds == {SeedUrl, Url(<<"example.com">>, <<"/">>)}
LinkSeedSlash == Item(Url(<<"docs.", "stripe.com">>, <<"/api", "/">>), None)
LinkWebhooks == Item(ItemA.url, None)
LinkCharges == Item(ItemD.url, None)
LinkOtherDocs == Item(OtherDomainUrl, None)
LinkBlog == Item(ItemC.url, None)
LinkMedium == Item(Url(<<"medium.com">>, <<"/guide">>), None)
ItemBlogDocs == Item(Url(<<"blog.", "example.com">>, <<"/docs/", "x">>), Some(<<Q>>))
MapReplies ==
    {Reply(TRUE, <<>>), Reply(FALSE, <<>>),
     Reply(FALSE, <<LinkWebhooks, LinkCharges, LinkSeedSlash>>),
     Reply(FALSE, <<LinkOtherDocs, LinkBlog, LinkMedium, LinkWebhooks>>)}
DiscoverSearchReplies ==
    {Reply(TRUE, <<>>), Reply(FALSE, <<>>), Reply(FALSE, <<ItemB, ItemA>>),
     Reply(FALSE, <<ItemBlogDocs, ItemC>>)}
DiscoverStealthReplies == {Reply(TRUE, <<>>), Reply(FALSE, <<ItemB>>)}

\* discover_sources(task, seed_url)
DiscoverCall(seed_url, map_reply, search_reply, stealth_reply) ==
    /\ FirstCall
    /\ last_call' = Call("discover_sources",
                         [seed_url |-> seed_url, map_reply |-> map_reply,
                          search_reply |-> search_reply, stealth_reply |-> stealth_reply],
                         DiscoverSources(seed_url, map_reply, search_reply, stealth_reply))
    /\ UNCHANGED <<tvars, cvars, manifest, files>>

\* main: the environments, the replies of the service and the outcomes of the
\* stages after the corpus is built
Envs == {Env(f, a) : f \in BOOLEAN, a \in BOOLEAN}
MainMapReplies == {Reply(TRUE, <<>>), Reply(FALSE, <<LinkWebhooks, LinkCharges, LinkSeedSlash>>)}
MainSearchReplies == {Reply(TRUE, <<>>), Reply(FALSE, <<ItemB, ItemA>>)}
MainCrawlReplies ==
    {SeedBuildReplies, [base_url \in {BaseUrl(SeedUrl)} |-> [s \in BOOLEAN |-> Reply(TRUE, <<>>)]]}
LaterOutcomes == {"", "TeacherSessionError", "ValidationError", "GenerationError"}

\* main(task, seed, ...)
MainCall(env, map_reply, search_reply, stealth, replies, later) ==
    /\ FirstCall
    /\ last_call' = Call("main",
                         [env |-> env, map_reply |-> map_reply, search_reply |-> search_reply,
                          stealth |-> stealth, replies |-> replies, later |-> later],
                         Main(env, map_reply, search_reply, 50, stealth, replies, later))
    /\ UNCHANGED <<tvars, cvars, manifest, files>>

(***************************************************************************)
(* firecrawl_search.py: run.  The search it calls takes a categories        *)
(* argument and follows the contract of the search capability: it returns   *)
(* results or raises.  replies[k] is what the service answers to the k-th   *)
(* search call.                                                             *)
(***************************************************************************)
\* a loop that makes one call more than retries
RetriesExhausted_OneMore(n, retries) == n > retries + 1

\* line 76, for attempt in range(1, retries + 1): the loop is over
RetriesExhausted(n, retries) == n > retries

\* lines 74-83: the retry loop from its n-th iteration on:
\* [result, calls, outcomes], result being None when no call succeeded
RECURSIVE SearchWithRetries(_, _, _)
SearchWithRetries(n, retries, replies) ==
    IF RetriesExhausted(n, retries)
    THEN [result |-> None, calls |-> 0, outcomes |-> <<>>]
    ELSE LET found == FirecrawlSearch(replies[n])
             rest == SearchWithRetries(n + 1, retries, replies)
         IN  IF found.raised = ""
             THEN [result |-> Some(found.results), calls |-> 1, outcomes |-> <<"">>]
             ELSE [result |-> rest.result, calls |-> 1 + rest.calls,
                   outcomes |-> <<found.raised>> \o rest.outcomes]

\* _write_cache: the cache file of a search
CacheFile(query, results) == [query |-> query, results |-> results]

\* run(query, limit, retries, github): [raised, calls, outcomes, cache]
FirecrawlSearchRun(query, retries, env, replies) ==
    LET looped == SearchWithRetries(1, retries, replies)
    IN  IF query = <<>>
        THEN [raised |-> "ValueError", calls |-> 0, outcomes |-> <<>>, cache |-> None]
        ELSE IF GetFirecrawlApiKey(env) # ""
        THEN [raised |-> GetFirecrawlApiKey(env), calls |-> 0, outcomes |-> <<>>,
              cache |-> None]
        ELSE IF looped.result = None
        THEN [raised |-> "FirecrawlSearchError", calls |-> looped.calls,
              outcomes |-> looped.outcomes, cache |-> None]
        ELSE [raised |-> "", calls |-> looped.calls, outcomes |-> looped.outcomes,
              cache |-> Some(CacheFile(query, looped.result[1]))]

\* run: the queries, the answers of the service to the successive calls
RunQueries == {<<>>, <<Q>>}
RunSearchReplies == {Reply(TRUE, <<>>), Reply(FALSE, <<>>), Reply(FALSE, <<ItemB>>)}
RunReplySeqs == [1..(MaxRetries + 1) -> RunSearchReplies]

FirecrawlSearchRunCall(query, retries, env, replies) ==
    /\ FirstCall
    /\ last_call' = Call("firecrawl_search.run",
                         [query |-> query, retries |-> retries, env |-> env,
                          replies |-> replies],
                         FirecrawlSearchRun(query, retries, env, replies))
    /\ UNCHANGED <<tvars, cvars, manifest, files>>

\* search_for_gap: the gap queries and the replies to the fallback crawl
GapQueries == {<<Q>>, <<Q, SP, STRIPE>>}
GapCrawlReplies == CrawlReplies \cup {Reply(FALSE, <<ItemB, ItemD>>)}

\* search_for_gap(gap_query, stealth): the sources returned and the crawls issued
SearchForGapCall(gap_query, search_reply, crawl_reply) ==
    /\ FirstCall
    /\ last_call' = Call("search_for_gap",
                         [gap_query |-> gap_query, search_reply |-> search_reply,
                          crawl_reply |-> crawl_reply],
                         [sources |-> SearchForGap(gap_query, search_reply, crawl_reply),
                          crawls |-> FallbackCrawls(gap_query, search_reply)])
    /\ UNCHANGED <<tvars, cvars, manifest, files>>

\* discover_sources_from_task: the answers to the four seed searches, the
\* site maps of the hosts and the number of seeds
SeedRound(reply, stealth_reply) == [reply |-> reply, stealth_reply |-> stealth_reply]
FailedRound == SeedRound(Reply(TRUE, <<>>), Reply(TRUE, <<>>))
SeedSearchRounds ==
    {<<FailedRound, FailedRound, FailedRound, FailedRound>>,
     <<SeedRound(Reply(FALSE, <<Item(BareGithub.url, None), Item(SocialSource.url, None)>>),
                 Reply(TRUE, <<>>)),
       FailedRound, FailedRound, FailedRound>>,
     <<SeedRound(Reply(FALSE, <<Item(SeedUrl, None)>>), Reply(TRUE, <<>>)),
       FailedRound, FailedRound, FailedRound>>,
     <<SeedRound(Reply(TRUE, <<>>),
                 Reply(FALSE, <<LinkSeedSlash, Item(SeedUrl, None), LinkOtherDocs>>)),
       SeedRound(Reply(FALSE, <<LinkBlog, Item(SeedUrl, None)>>), Reply(TRUE, <<>>)),
       FailedRound, FailedRound>>,
     <<FailedRound, FailedRound, FailedRound,
       SeedRound(Reply(FALSE, <<LinkBlog>>), Reply(TRUE, <<>>))>>,
     <<SeedRound(Reply(FALSE, <<Item(SeedUrl, None), LinkOtherDocs>>), Reply(TRUE, <<>>)),
       FailedRound,
       SeedRound(Reply(FALSE, <<LinkMedium, LinkOtherDocs>>), Reply(TRUE, <<>>)),
       FailedRound>>}
SeedHosts == {SeedUrl.domain, OtherDomainUrl.domain, LinkBlog.url.domain, LinkMedium.url.domain}
HostMap(host) ==
    CASE host = SeedUrl.domain -> Reply(FALSE, <<LinkWebhooks, LinkCharges>>)
      [] host = OtherDomainUrl.domain -> Reply(FALSE, <<LinkOtherDocs, LinkWebhooks>>)
      [] host = LinkBlog.url.domain -> Reply(FALSE, <<LinkBlog>>)
      [] OTHER -> Reply(FALSE, <<LinkMedium>>)
HostMaps ==
    {[host \in SeedHosts |-> IF host \in up THEN HostMap(host) ELSE Reply(TRUE, <<>>)] :
        up \in {{}, {SeedUrl.domain}, SeedHosts \ {SeedUrl.domain}, SeedHosts}}

\* discover_sources_from_task(task, max_seeds)
DiscoverFromTaskCall(max_seeds, rounds, map_replies, search_reply) ==
    /\ FirstCall
    /\ last_call' = Call("discover_sources_from_task",
                         [max_seeds |-> max_seeds, rounds |-> rounds,
                          map_replies |-> map_replies, search_reply |-> search_reply],
                         DiscoverSourcesFromTask(max_seeds, rounds, map_replies, search_reply,
                                                 Reply(TRUE, <<>>)))
    /\ UNCHANGED <<tvars, cvars, manifest, files>>

\* _deduplicate_sources(sources)
DeduplicateCall(sources) ==
    /\ FirstCall
    /\ last_call' = Call("_deduplicate_sources", sources, DeduplicateSources(sources))
    /\ UNCHANGED <<tvars, cvars, manifest, files>>

\* the outputs handed to the validators
OutputTokens == {Q, TODO, PIP_BAD, PY_OK, PY_BAD, JS_BAD, BASH_OK, BASH_BAD, TEXT_BLOCK}
Outputs == SeqsUpTo(OutputTokens, MaxOutputLen)

\* shadow_validate_output(output, task, sandbox_runner)
ShadowValidateCall(output, runner, timed_out) ==
    /\ FirstCall
    /\ runner # "run_sandbox_validation" => timed_out = {}
    /\ last_call' = Call("shadow_validate_output",
                         [output |-> output, runner |-> runner, timed_out |-> timed_out],
                         ShadowValidateOutput(output, SandboxRun(runner, output, timed_out)))
    /\ UNCHANGED <<tvars, cvars, manifest, files>>

\* run_sandbox_validation(output, task)
SandboxCall(output, timed_out) ==
    /\ FirstCall
    /\ last_call' = Call("run_sandbox_validation",
                         [output |-> output, timed_out |-> timed_out],
                         RunSandboxValidation(output, timed_out))
    /\ UNCHANGED <<tvars, cvars, manifest, files>>

CallNext ==
    \/ \E tier \in SourceTiers, source_type \in SourceTypes :
          TierToPriorityCall(tier, source_type)
    \/ \E sources \in SeqsUpTo(DedupSources, MaxSources) : DeduplicateCall(sources)
    \/ \E seed_url \in DiscoverSeeds, map_reply \in MapReplies,
          search_reply \in DiscoverSearchReplies, stealth_reply \in DiscoverStealthReplies :
          DiscoverCall(seed_url, map_reply, search_reply, stealth_reply)
    \/ \E env \in Envs, map_reply \in MainMapReplies, search_reply \in MainSearchReplies,
          stealth \in BOOLEAN, replies \in MainCrawlReplies, later \in LaterOutcomes :
          MainCall(env, map_reply, search_reply, stealth, replies, later)
    \/ \E output \in Outputs, runner \in SandboxRunners, timed_out \in SUBSET (1..MaxOutputLen) :
          ShadowValidateCall(output, runner, timed_out)
    \/ \E output \in Outputs, timed_out \in SUBSET (1..MaxOutputLen) :
          SandboxCall(output, timed_out)
    \/ \E gap_query \in GapQueries, search_reply \in SearchReplies,
          crawl_reply \in GapCrawlReplies :
          SearchForGapCall(gap_query, search_reply, crawl_reply)
    \/ \E max_seeds \in 0..MaxSeeds, rounds \in SeedSearchRounds, map_replies \in HostMaps,
          search_reply \in MainSearchReplies :
          DiscoverFromTaskCall(max_seeds, rounds, map_replies, search_reply)
    \/ \E query \in RunQueries, retries \in 0..MaxRetries, env \in Envs,
          replies \in RunReplySeqs : FirecrawlSearchRunCall(query, retries, env, replies)

CallSpec == CallInit /\ [][CallNext]_vars

(***************************************************************************)
(* Properties of the corpus directory (CorpusSpec)                          *)
(***************************************************************************)
\* a step of add_pages_to_corpus on a directory that has a manifest
EnrichStep == manifest # None /\ last_op'.op = "enrich" /\ ops' = ops + 1

UrlsOf(m) == {m.pages[i].url : i \in 1..Len(m.pages)}

\* C11: enriching a corpus with N sources that all carry content and whose
\* URLs are not in the manifest returns N, raises total_pages by exactly N and
\* leaves the filename of every page that was already listed unchanged.
C11_NewSourcesAllAdded ==
    [][(/\ EnrichStep
        /\ \A i \in 1..Len(last_op'.sources) :
              /\ Truthy(last_op'.sources[i].content)
              /\ last_op'.sources[i].url \notin UrlsOf(manifest[1]))
       => /\ last_op'.raised = ""
          /\ last_op'.added = Len(last_op'.sources)
          /\ manifest'[1].total_pages = manifest[1].total_pages + Len(last_op'.sources)
          /\ Len(manifest'[1].pages) = Len(manifest[1].pages) + Len(last_op'.sources)
          /\ \A i \in 1..Len(manifest[1].pages) :
                manifest'[1].pages[i].filename = manifest[1].pages[i].filename]_vars

\* C11 witness: an enrichment with two sources added both to a corpus that had
\* pages
C11_Witness ==
    /\ last_op.op = "enrich"
    /\ Len(last_op.sources) = 2
    /\ last_op.added = 2
    /\ manifest # None
    /\ manifest[1].total_pages >= 3

\* C12: an enrichment whose sources are all already listed or carry no content
\* returns 0 and leaves the manifest (updated_at and the counters included)
\* and every page file as they were; and enriching a second time with the
\* same sources changes nothing the first time did not.
C12_EnrichmentIsUrlIdempotent ==
    /\ [](cpc = "built" /\ manifest # None =>
            \A sources \in EnrichSourceLists :
               LET once == AddPagesToCorpus(manifest[1], sources)
                   twice == AddPagesToCorpus(once.manifest, sources)
               IN  /\ twice.added = 0
                   /\ twice.manifest = once.manifest
                   /\ WriteAll(WriteAll(files, once.written), twice.written)
                        = WriteAll(files, once.written))
    /\ [][(/\ EnrichStep
           /\ \A i \in 1..Len(last_op'.sources) :
                 \/ ~Truthy(last_op'.sources[i].content)
                 \/ last_op'.sources[i].url \in UrlsOf(manifest[1]))
          => /\ last_op'.added = 0
             /\ manifest' = manifest
             /\ files' = files]_vars

\* C12 witness: an enrichment with sources, one of them with content and
\* already listed, returned 0
C12_Witness ==
    /\ last_op.op = "enrich"
    /\ last_op.raised = ""
    /\ last_op.added = 0
    /\ \E i \in 1..Len(last_op.sources) : Truthy(last_op.sources[i].content)
    /\ manifest # None
    /\ manifest[1].updated_at = 0

\* C13: after the build and after any sequence of enrichments, with any source
\* lists (a list may name the same URL more than once), no two page entries of
\* the manifest have the same url.
C13_ManifestUrlsUnique ==
    manifest # None =>
        \A i, j \in 1..Len(manifest[1].pages) :
            manifest[1].pages[i].url = manifest[1].pages[j].url => i = j

\* the total of the token estimates of the pages, summed from the last page
RECURSIVE TokenTotal(_)
TokenTotal(pages) ==
    IF pages = <<>> THEN 0
    ELSE TokenTotal(SubSeq(pages, 1, Len(pages) - 1)) + pages[Len(pages)].token_estimate

PagesOfTier(pages, t) == Cardinality({i \in 1..Len(pages) : pages[i].tier = t})

\* C14: after the build and after every enrichment the aggregates of the
\* manifest agree with its pages list: total_pages is the number of entries,
\* total_tokens_estimate the sum of their token_estimate, and each counter of
\* tier_breakdown the number of pages of that tier.
C14_AggregatesMatchPages ==
    manifest # None =>
        LET m == manifest[1]
        IN  /\ m.total_pages = Len(m.pages)
            /\ m.total_tokens_estimate = TokenTotal(m.pages)
            /\ \A t \in 1..3 : m.tier_breakdown[t] = PagesOfTier(m.pages, t)
            /\ \A i \in 1..Len(m.pages) : m.pages[i].tier \in 1..3

\* C14 witness: an enrichment added pages of two tiers, with tokens, to a
\* built corpus
C14_Witness ==
    /\ last_op.op = "enrich"
    /\ last_op.added = 2
    /\ manifest # None
    /\ manifest[1].tier_breakdown[1] >= 2
    /\ manifest[1].tier_breakdown[3] >= 1
    /\ manifest[1].total_tokens_estimate >= 3

\* C15: over a build and any number of enrichments every page is written under
\* a filename whose ordinal index was not used before in that corpus: the
\* page entries carry the indexes 1, 2, 3, ... in order, so no two entries
\* share a filename, and no enrichment writes to the name of a file that
\* exists.
C15_FilenamesNeverReused ==
    /\ [](manifest # None =>
            /\ \A i \in 1..Len(manifest[1].pages) : manifest[1].pages[i].filename.index = i
            /\ \A i, j \in 1..Len(manifest[1].pages) :
                  manifest[1].pages[i].filename = manifest[1].pages[j].filename => i = j
            /\ last_op.op = "build" =>
                  DOMAIN files = {manifest[1].pages[i].filename : i \in 1..Len(manifest[1].pages)})
    /\ [][EnrichStep =>
            /\ Cardinality(DOMAIN files') = Cardinality(DOMAIN files) + last_op'.added
            /\ \A i \in Len(manifest[1].pages) + 1 .. Len(manifest'[1].pages) :
                  manifest'[1].pages[i].filename \notin DOMAIN files]_vars

\* C15 witness: two enrichments in a row each added a page to a corpus built
\* with more than one page
C15_Witness ==
    /\ last_op.op = "enrich"
    /\ last_op.added = 1
    /\ ops = 2
    /\ manifest # None
    /\ Len(manifest[1].pages) >= 4
    /\ Cardinality(DOMAIN files) = Len(manifest[1].pages)

\* C16: enrichment is append-only: after any add_pages_to_corpus call the
\* previous pages list is an unchanged prefix of the new one (same entries,
\* same order), and no page file that existed is removed or edited.
C16_EnrichmentAppendsOnly ==
    [][EnrichStep =>
         /\ Len(manifest'[1].pages) >= Len(manifest[1].pages)
         /\ SubSeq(manifest'[1].pages, 1, Len(manifest[1].pages)) = manifest[1].pages
         /\ \A name \in DOMAIN files :
               name \in DOMAIN files' /\ files'[name] = files[name]]_vars

\* C16 witness: an enrichment added a page of a higher priority than the last
\* page listed before it
C16_Witness ==
    /\ last_op.op = "enrich"
    /\ last_op.added >= 1
    /\ manifest # None
    /\ LET pages == manifest[1].pages
       IN  /\ Len(pages) >= 3
           /\ pages[Len(pages)].priority < pages[Len(pages) - 1].priority

\* a page file that is there and has text
Readable(name) ==
    /\ name \in DOMAIN files
    /\ (files[name].frontmatter # None \/ Strip(files[name].text) # <<>>)

\* C17: load_corpus_as_context either returns the concatenation of all the
\* pages of the manifest, in manifest order, or raises CorpusLoadError: when
\* the manifest is missing or lists no page, or a file it lists is missing or
\* empty, it raises, and it never returns a context built from a part of the
\* pages.
C17_LoadIsAllOrError ==
    last_op.op = "load" =>
        LET all_readable == /\ manifest # None
                            /\ manifest[1].pages # <<>>
                            /\ \A i \in 1..Len(manifest[1].pages) :
                                  Readable(manifest[1].pages[i].filename)
        IN  /\ all_readable =>
                  /\ last_op.raised = ""
                  /\ Len(last_op.parts) = Len(manifest[1].pages)
                  /\ \A i \in 1..Len(manifest[1].pages) :
                        /\ last_op.parts[i].url = manifest[1].pages[i].url
                        /\ last_op.parts[i].content
                             = Strip(files[manifest[1].pages[i].filename].text)
            /\ ~all_readable =>
                  /\ last_op.raised = "CorpusLoadError"
                  /\ last_op.parts = <<>>

\* C17 witness: a load of a corpus of three pages whose second file was
\* emptied raised
C17_Witness ==
    /\ last_op.op = "load"
    /\ last_op.raised = "CorpusLoadError"
    /\ manifest # None
    /\ Len(manifest[1].pages) >= 3
    /\ Readable(manifest[1].pages[1].filename)
    /\ manifest[1].pages[2].filename \in DOMAIN files
    /\ ~Readable(manifest[1].pages[2].filename)
    /\ Readable(manifest[1].pages[3].filename)

\* the number of pages of a crawl_url call of the log (none when it raised)
PagesOfCall(call) == IF call.raised = "" THEN call.pages ELSE 0

\* a domain crawl of the log that was retried once with stealth and kept the
\* larger of the two results
RetriedOnceKeepingLarger(crawl) ==
    /\ Len(crawl.calls) = 2
    /\ ~crawl.calls[1].stealth
    /\ crawl.calls[2].stealth
    /\ crawl.kept >= PagesOfCall(crawl.calls[1])
    /\ crawl.kept >= PagesOfCall(crawl.calls[2])
    /\ crawl.kept \in {PagesOfCall(crawl.calls[1]), PagesOfCall(crawl.calls[2])}

\* a domain crawl of the log issued without stealth whose first crawl_url call
\* returned at most one page
ReturnedTooFew(crawl) ==
    /\ ~crawl.stealth
    /\ crawl.calls[1].raised = ""
    /\ crawl.calls[1].pages <= 1

Surviving == FilterCrawlableSources(build_args[1].sources)

IsPrefetchedPage(page, source) ==
    page = PageInfo(source.url, source.title, source.content[1], page.filename.index,
                    source.source_type, source.priority, source.tier)

\* every surviving source with content is listed: by its crawled page, or by
\* the page of its prefetched content
PrefetchedAllListed ==
    \A i \in 1..Len(Surviving) :
        Truthy(Surviving[i].content) =>
            /\ build_raised = ""
            /\ manifest # None
            /\ \E k \in 1..Len(manifest[1].pages) :
                  /\ manifest[1].pages[k].url = Surviving[i].url
                  /\ \/ manifest[1].pages[k].source_type = "crawled"
                     \/ IsPrefetchedPage(manifest[1].pages[k], Surviving[i])

C21_PriorityMonotonicInTier ==
    /\ [](last_call.fn = "_tier_to_priority" =>
            LET tier == last_call.args.tier
                origin == last_call.args.source_type
            IN  /\ origin = "seed" => last_call.result = 1
                /\ origin = "mapped" => last_call.result = 3 * tier - 1
                /\ origin = "searched" => last_call.result = 3 * tier)
    /\ [][(/\ last_call.fn = "_tier_to_priority"
           /\ last_call'.fn = "_tier_to_priority"
           /\ last_call'.args.source_type = last_call.args.source_type
           /\ last_call.args.source_type # "seed"
           /\ last_call.args.tier < last_call'.args.tier)
          => last_call.result < last_call'.result]_vars

\* C21 witness: the priority of a mapped source of tier 3 was computed
C21_Witness ==
    /\ last_call.fn = "_tier_to_priority"
    /\ last_call.args.tier = 3
    /\ last_call.args.source_type = "mapped"
    /\ last_call.result = 8

\* C22: for every source list, deduplication yields at most one source per
\* normalized URL (the slash at the end stripped), the survivor is a source of
\* the list with the least priority value among those that share its URL,
\* every URL of the list survives, and deduplicating the output again returns
\* the same sources.
C22_DeduplicationKeepsBestPerUrl ==
    last_call.fn = "_deduplicate_sources" =>
        LET given == last_call.args
            kept == last_call.result
        IN  /\ \A i, j \in 1..Len(kept) :
                  NormalizedUrl(kept[i].url) = NormalizedUrl(kept[j].url) => i = j
            /\ \A i \in 1..Len(kept) :
                  /\ \E k \in 1..Len(given) : given[k] = kept[i]
                  /\ \A k \in 1..Len(given) :
                        NormalizedUrl(given[k].url) = NormalizedUrl(kept[i].url)
                            => kept[i].priority <= given[k].priority
            /\ \A k \in 1..Len(given) :
                  \E i \in 1..Len(kept) :
                      NormalizedUrl(kept[i].url) = NormalizedUrl(given[k].url)
            /\ DeduplicateSources(kept) = kept

\* C22 witness: of three sources of one page, given with falling priority
\* values and with and without the slash, the last one survived alone
C22_Witness ==
    /\ last_call.fn = "_deduplicate_sources"
    /\ Len(last_call.args) = 3
    /\ Len(last_call.result) = 1
    /\ last_call.args[1].priority = 3
    /\ last_call.args[2].priority = 2
    /\ last_call.args[3].priority = 1
    /\ last_call.result[1] = last_call.args[3]

\* the list a discover_sources call returned
Discovered == last_call.fn = "discover_sources" /\ last_call.result.raised = ""
FoundSources == last_call.result.sources

OnTier3Domain(url) == \E i \in 1..Len(TIER_3_DOMAINS) : Contains(url.domain, TIER_3_DOMAINS[i])
OnTier2Domain(url) == \E i \in 1..Len(TIER_2_DOMAINS) : Contains(url.domain, TIER_2_DOMAINS[i])
MatchesTier1(url) == \E i \in 1..Len(TIER_1_PATTERNS) : InUrl(TIER_1_PATTERNS[i], url)

\* the list is in non-decreasing order of (priority, url), the seed is first,
\* and the mapped pages of the seed's domain have tier 1 and priority 2 and
\* precede every searched source
SortedSeedFirstMappedBeforeSearched ==
    LET seed_url == last_call.args.seed_url
        found == FoundSources
    IN  /\ \A i, j \in 1..Len(found) :
              i < j => \/ found[i].priority < found[j].priority
                       \/ /\ found[i].priority = found[j].priority
                          /\ UrlRank(found[i].url) <= UrlRank(found[j].url)
        /\ found # <<>>
        /\ found[1].source_type = "seed"
        /\ found[1].url = seed_url
        /\ \A i \in 1..Len(found) :
              found[i].source_type = "mapped" /\ found[i].url.domain = seed_url.domain
                  => /\ found[i].tier = 1
                     /\ found[i].priority = 2
                     /\ \A j \in 1..Len(found) : found[j].source_type = "searched" => i < j

\* the searched source at position j follows every mapped source of tier 1
FollowsTier1Mapped(j) ==
    \A i \in 1..Len(FoundSources) :
        FoundSources[i].source_type = "mapped" /\ FoundSources[i].tier = 1 => i < j

\* C23 as stated: the list returned by discover_sources is sorted by
\* (priority, url), starts with the seed, has every same-domain mapped page
\* (tier 1, priority 2) before every searched source, and every searched
\* result on a Tier-3 domain has priority 9 and follows all Tier-1 mapped
\* pages.
C23_Tier3DomainSearchedHasPriorityNine ==
    Discovered =>
        /\ SortedSeedFirstMappedBeforeSearched
        /\ \A j \in 1..Len(FoundSources) :
              FoundSources[j].source_type = "searched" /\ OnTier3Domain(FoundSources[j].url)
                  => FoundSources[j].priority = 9 /\ FollowsTier1Mapped(j)

\* C23 amended: as above, for the searched results on a Tier-3 domain whose
\* URL matches no Tier-1 pattern and no Tier-2 domain (the patterns checked
\* before the Tier-3 domains).
C23_SortedSeedFirstTierThreeLast ==
    Discovered =>
        /\ SortedSeedFirstMappedBeforeSearched
        /\ \A j \in 1..Len(FoundSources) :
              /\ FoundSources[j].source_type = "searched"
              /\ OnTier3Domain(FoundSources[j].url)
              /\ ~MatchesTier1(FoundSources[j].url)
              /\ ~OnTier2Domain(FoundSources[j].url)
              => FoundSources[j].priority = 9 /\ FollowsTier1Mapped(j)

\* C23 witness: a list of the seed, two mapped pages of its domain in the
\* order of their URLs (the site map gave them in the other order) and a
\* Stack Overflow result of priority 9 at the end
C23_Witness ==
    /\ Discovered
    /\ Len(FoundSources) = 4
    /\ FoundSources[1].source_type = "seed"
    /\ FoundSources[2].source_type = "mapped" /\ FoundSources[2].url = ItemD.url
    /\ FoundSources[3].source_type = "mapped" /\ FoundSources[3].url = ItemA.url
    /\ FoundSources[4].source_type = "searched" /\ FoundSources[4].priority = 9
    /\ last_call.args.map_reply.items[1].url = ItemA.url

\* C24: in every list returned by discover_sources each seed-origin source
\* has priority 1 and tier 1, and no source of another origin has priority 1.
C24_OnlySeedHasPriorityOne ==
    Discovered =>
        \A i \in 1..Len(FoundSources) :
            IF FoundSources[i].source_type = "seed"
            THEN FoundSources[i].priority = 1 /\ FoundSources[i].tier = 1
            ELSE FoundSources[i].priority # 1

\* C24 witness: a list returned for a seed that the pattern table would not
\* put in tier 1, with a mapped page of the seed's domain
C24_Witness ==
    /\ Discovered
    /\ ClassifyTier(last_call.args.seed_url, FALSE) # 1
    /\ \E i \in 1..Len(FoundSources) : FoundSources[i].source_type = "seed"
    /\ \E i \in 1..Len(FoundSources) : FoundSources[i].source_type = "mapped"

\* the site map of the call failed; the supplementary search of the call
\* failed, its stealth retry included
SiteMapFailed == last_call.result.map_raised # ""
SearchFailed ==
    /\ last_call.result.searches # <<>>
    /\ \A i \in 1..Len(last_call.result.searches) : last_call.result.searches[i].raised # ""

\* C25: a site-map failure always aborts discover_sources with DiscoveryError
\* and no sources; a failure of the supplementary search, stealth retry
\* included, never aborts it: the seed and the mapped sources are returned.
C25_MapFailureFatalSearchFailureNot ==
    last_call.fn = "discover_sources" =>
        LET seed_url == last_call.args.seed_url
            links == last_call.args.map_reply.items
            found == last_call.result.sources
        IN  /\ SiteMapFailed
                => last_call.result.raised = "DiscoveryError" /\ found = <<>>
            /\ ~SiteMapFailed /\ SearchFailed
                => /\ last_call.result.raised = ""
                   /\ \E i \in 1..Len(found) :
                         found[i].source_type = "seed" /\ found[i].url = seed_url
                   /\ \A k \in 1..Len(links) :
                         KeptLink(links[k], seed_url)
                             => \E i \in 1..Len(found) :
                                    /\ found[i].source_type \in {"seed", "mapped"}
                                    /\ NormalizedUrl(found[i].url) = NormalizedUrl(links[k].url)

\* C25 witness: the search and its stealth retry both failed and the list
\* returned holds the seed and mapped sources
C25_Witness ==
    /\ Discovered
    /\ SearchFailed
    /\ Len(last_call.result.searches) = 2
    /\ Len(FoundSources) >= 3
    /\ \A i \in 1..Len(FoundSources) : FoundSources[i].source_type \in {"seed", "mapped"}

\* C26: when either credential (that of the crawling/search service or that
\* of the language-model service) is absent, main ends with a configuration
\* error and no pipeline stage has acted before it.
C26_MissingCredentialStopsBeforeAnyStage ==
    last_call.fn = "main" /\ (~last_call.args.env.firecrawl \/ ~last_call.args.env.anthropic)
        => last_call.result.raised = "ConfigError" /\ last_call.result.stages = <<>>

\* what the static pass reports on the output of the call, and the result of
\* the sandbox runner of the call on it (None without a runner)
StaticReport == FastStaticAnalysis(last_call.args.output)
SandboxReport ==
    SandboxRun(last_call.args.runner, last_call.args.output, last_call.args.timed_out)

\* C27: shadow_validate_output returns passed = FALSE whenever the static
\* pass reports at least one error; static warnings alone (placeholder
\* words, no code block) never make it return passed = FALSE: without a
\* static error and without a failed sandbox run it returns passed = TRUE.
C27_ErrorsRejectWarningsDoNot ==
    last_call.fn = "shadow_validate_output" =>
        /\ StaticReport.errors # <<>> => ~last_call.result.passed
        /\ StaticReport.errors = <<>> /\ (SandboxReport = None \/ SandboxReport[1].success)
               => last_call.result.passed

\* C27 witness: an output with a placeholder word and no code block, no
\* sandbox runner: passed with the two warnings
C27_Witness ==
    /\ last_call.fn = "shadow_validate_output"
    /\ last_call.args.runner = "none"
    /\ Len(StaticReport.warnings) = 2
    /\ last_call.result.passed
    /\ last_call.result.warnings = StaticReport.warnings

\* C28 as stated: an output without extractable code block is rejected by
\* shadow_validate_output, whether or not a sandbox runner is supplied.
C28_NoCodeBlockAlwaysRejected ==
    last_call.fn = "shadow_validate_output" /\ ExtractCodeBlocks(last_call.args.output) = <<>>
        => ~last_call.result.passed

\* C28 amended: an output without extractable code block is rejected by
\* shadow_validate_output when run_sandbox_validation is supplied as its
\* sandbox runner.
C28_NoCodeBlockRejectedBySandbox ==
    /\ last_call.fn = "shadow_validate_output"
    /\ ExtractCodeBlocks(last_call.args.output) = <<>>
    /\ last_call.args.runner = "run_sandbox_validation"
    => ~last_call.result.passed

\* C28 witness: an output without code block and without static error,
\* rejected on the report of run_sandbox_validation
C28_Witness ==
    /\ last_call.fn = "shadow_validate_output"
    /\ last_call.args.output # <<>>
    /\ ExtractCodeBlocks(last_call.args.output) = <<>>
    /\ StaticReport.errors = <<>>
    /\ last_call.args.runner = "run_sandbox_validation"
    /\ ~last_call.result.passed
    /\ last_call.result.errors = <<"No runnable code blocks found">>

\* the blocks of the output of a run_sandbox_validation call, and the
\* positions of those whose check fails (it times out or finds a syntax error)
SandboxBlocks == ExtractCodeBlocks(last_call.args.output)
FailingBlocks ==
    {idx \in 1..Len(SandboxBlocks) :
        /\ SandboxBlocks[idx].lang \in {"python", "py", "bash", "sh", "shell"}
        /\ idx \in last_call.args.timed_out \/ ~SandboxBlocks[idx].syntax_ok}

\* C29: in run_sandbox_validation a check that times out is a failure with
\* exit code 124; the first failing block makes the whole validation fail
\* (no later block is checked); and on every exit path that created the
\* temporary directory it no longer exists when the call returns.
C29_TimeoutFailsFirstFailureEndsTmpdirRemoved ==
    last_call.fn = "run_sandbox_validation" =>
        LET result == last_call.result
            checked == result.checked
        IN  /\ \A k \in 1..Len(checked) :
                  checked[k] \in last_call.args.timed_out
                      => ~result.success /\ result.exit_code = 124 /\ k = Len(checked)
            /\ FailingBlocks # {}
                  => /\ ~result.success
                     /\ checked # <<>>
                     /\ checked[Len(checked)] \in FailingBlocks
                     /\ \A idx \in FailingBlocks : checked[Len(checked)] <= idx
            /\ FailingBlocks = {} /\ SandboxBlocks # <<>> => result.success /\ result.exit_code = 0
            /\ result.tmpdir # "exists"
            /\ result.tmpdir = "removed" <=> SandboxBlocks # <<>>

\* C29 witness: the check of the first block passed and that of the second
\* timed out: exit code 124, the temporary directory removed
C29_Witness ==
    /\ last_call.fn = "run_sandbox_validation"
    /\ last_call.result.checked = <<1, 2>>
    /\ 2 \in last_call.args.timed_out
    /\ last_call.result.exit_code = 124
    /\ ~last_call.result.success
    /\ last_call.result.tmpdir = "removed"

\* the domains of the build: those of the crawlable seed and mapped sources
\* it was given, in the order of the sources
BuildDomains == DomainsOf(FilterCrawlableSources(build_args[1].sources), {})

\* the domain crawls of the log are those of the first domains of the build,
\* one after the other, each with one crawl_url call issued as the caller
\* requested and at most one more, issued with stealth after a first one
\* without
CrawledInSequenceAtMostTwice ==
    /\ Len(crawl_log) <= Len(BuildDomains)
    /\ \A i \in 1..Len(crawl_log) :
          /\ crawl_log[i].base_url = BuildDomains[i]
          /\ \A j \in 1..Len(crawl_log) : crawl_log[j].base_url = crawl_log[i].base_url => i = j
          /\ Len(crawl_log[i].calls) \in {1, 2}
          /\ crawl_log[i].calls[1].stealth = build_args[1].stealth
          /\ Len(crawl_log[i].calls) = 2
                => ~crawl_log[i].calls[1].stealth /\ crawl_log[i].calls[2].stealth

\* a domain crawl of the log with a single crawl_url call, whose failure is
\* the error of the domain
CrawledOnceFailureRecorded(crawl) ==
    /\ Len(crawl.calls) = 1
    /\ crawl.calls[1].stealth
    /\ crawl.calls[1].raised # "" => crawl.errors = <<crawl.base_url>> /\ crawl.kept = 0
    /\ crawl.calls[1].raised = "" => crawl.errors = <<>>

C31_SandboxRunsOnceAfterCleanStaticPass ==
    last_call.fn = "shadow_validate_output" =>
        /\ last_call.result.runner_calls <= 1
        /\ last_call.result.runner_calls = 1
              => last_call.args.runner # "none" /\ StaticReport.errors = <<>>
        /\ StaticReport.errors # <<>> => last_call.result.runner_calls = 0

\* C31 witness: a runner was supplied and the output has a static error:
\* rejected without a call of the runner
C31_Witness ==
    /\ last_call.fn = "shadow_validate_output"
    /\ last_call.args.runner = "run_sandbox_validation"
    /\ StaticReport.errors # <<>>
    /\ last_call.result.runner_calls = 0
    /\ ~last_call.result.passed

\* the search of a search_for_gap call failed or returned nothing; the pages
\* its fallback crawl would return
GapSearchEmpty ==
    last_call.args.search_reply.failed \/ last_call.args.search_reply.items = <<>>
GapCrawlPages ==
    IF last_call.args.crawl_reply.failed THEN <<>>
    ELSE SelectSeq(last_call.args.crawl_reply.items, LAMBDA it : Truthy(it.markdown))

TriedSources ==
    UNION {{last_call.result.tried[i].sources[k] :
               k \in 1..Len(last_call.result.tried[i].sources)} :
           i \in 1..Len(last_call.result.tried)}

\* C33: discover_sources_from_task runs full discovery on at most max_seeds
\* distinct candidate seeds, the first ones, a failed seed not keeping the
\* next from being tried; it raises DiscoveryError when no candidate survives
\* filtering or when every seed tried fails, and otherwise returns the
\* deduplicated union of the discoveries sorted by (priority, url).
C33_AutoSeedsBoundedUnionOrError ==
    last_call.fn = "discover_sources_from_task" =>
        LET tried == last_call.result.tried
            candidates == last_call.result.candidates
            found == last_call.result.sources
            max_seeds == last_call.args.max_seeds
        IN  /\ Len(tried) <= max_seeds
            /\ Len(tried) = IF max_seeds < Len(candidates) THEN max_seeds ELSE Len(candidates)
            /\ \A i, j \in 1..Len(tried) :
                  /\ tried[i].seed_url = candidates[i]
                  /\ NormalizedUrl(tried[i].seed_url) = NormalizedUrl(tried[j].seed_url) => i = j
            /\ candidates = <<>> => last_call.result.raised = "DiscoveryError"
            /\ IF \A i \in 1..Len(tried) : tried[i].raised # ""
               THEN last_call.result.raised = "DiscoveryError" /\ found = <<>>
               ELSE /\ last_call.result.raised = ""
                    /\ \A i, j \in 1..Len(found) :
                          i < j => /\ NormalizedUrl(found[i].url) # NormalizedUrl(found[j].url)
                                   /\ \/ found[i].priority < found[j].priority
                                      \/ /\ found[i].priority = found[j].priority
                                         /\ UrlRank(found[i].url) < UrlRank(found[j].url)
                    /\ \A i \in 1..Len(found) : found[i] \in TriedSources
                    /\ \A src \in TriedSources :
                          \E i \in 1..Len(found) :
                              /\ NormalizedUrl(found[i].url) = NormalizedUrl(src.url)
                              /\ found[i].priority <= src.priority

\* C33 witness: of three candidates two were tried, the discovery of the
\* first failed and the sources of the second are returned
C33_Witness ==
    /\ last_call.fn = "discover_sources_from_task"
    /\ Len(last_call.result.candidates) = 3
    /\ Len(last_call.result.tried) = 2
    /\ last_call.result.tried[1].raised = "DiscoveryError"
    /\ last_call.result.tried[2].raised = ""
    /\ last_call.result.raised = ""
    /\ Len(last_call.result.sources) >= 2

(***************************************************************************)
(* C34                                                                      *)
(***************************************************************************)
\* the pages the enrichment of the attempt before the current one appended
\* to the manifest: its last gap_sources_added pages
AppendedByLastEnrichment ==
    IF trace # <<>> /\ trace[Len(trace)].gap_sources_added # None /\ manifest # None
    THEN LET pages == manifest[1].pages
             added == trace[Len(trace)].gap_sources_added[1]
         IN  {pages[i].url : i \in {i \in DOMAIN pages : i > Len(pages) - added}}
    ELSE {}

C34_LoadErrorReached ==
    /\ attempt = 2 /\ raised = "CorpusLoadError" /\ model_calls = 1


(***************************************************************************)
(* C35                                                                      *)
(***************************************************************************)
\* the tool the model called in the current attempt, and its input
SignalledTool == ExtractToolUse(response).tool_name
SignalledInput == ExtractToolUse(response).tool_input

\* the current attempt ended its first pass with a request_documentation call
DocumentationRequested ==
    /\ pc = "decide" /\ response # <<>>
    /\ ExtractToolUse(response).raised = ""
    /\ SignalledTool = "request_documentation"

\* C35: an analysis call happens only in an attempt whose model call
\* signalled task_complete, and once in that attempt (the attempt moves on to
\* its decision, and only the start of a new attempt leads to an analysis
\* again); an attempt that signalled request_documentation goes to its
\* decision without an analysis call, and the one step it can take from there
\* is the gap search, called with the (stripped) search_query of that tool
\* call.
C35_AnalysisOnlyAfterTaskComplete ==
    /\ [](analysis_calls <= attempt)
    /\ [][/\ (analysis_calls' # analysis_calls) =>
               (/\ analysis_calls' = analysis_calls + 1
                /\ pc = "analysis" /\ pc' = "decide"
                /\ attempt' = attempt
                /\ SignalledTool = "task_complete")
          /\ (pc' = "analysis") =>
               (/\ attempt' = attempt + 1
                /\ ExtractToolUse(response').tool_name = "task_complete")
          /\ (attempt' = attempt + 1 /\ raised' = ""
              /\ ExtractToolUse(response').tool_name = "request_documentation") =>
               (pc' = "decide" /\ analysis_calls' = analysis_calls)
          /\ DocumentationRequested =>
               (/\ analysis_calls' = analysis_calls
                /\ gap_searches' = Append(gap_searches,
                                          Strip(SignalledInput["search_query"].text)))]_vars

\* a request_documentation call with a padded search_query was followed by the
\* gap search for that query, in a session that also ran one analysis
C35_Witness ==
    /\ attempt = 2 /\ pc = "decide"
    /\ SignalledTool = "task_complete"
    /\ analysis_calls = 1
    /\ gap_searches = <<(<<Q>>)>>
    /\ trace[1].tool_call = "request_documentation"


(***************************************************************************)
(* C36                                                                      *)
(***************************************************************************)
\* a step of add_pages_to_corpus on a directory that has no manifest
EnrichWithoutManifestStep == manifest = None /\ last_op'.op = "enrich" /\ ops' = ops + 1

\* C36: add_pages_to_corpus on a directory without a manifest raises
\* CorpusUpdateError and leaves the directory as it was: no page file is
\* written and no manifest is created.
C36_EnrichWithoutManifestWritesNothing ==
    [][EnrichWithoutManifestStep =>
          /\ last_op'.raised = "CorpusUpdateError"
          /\ last_op'.added = 0
          /\ manifest' = None
          /\ DOMAIN files' = DOMAIN files
          /\ \A n \in DOMAIN files : files'[n] = files[n]]_vars

\* an enrichment with a source that carries content was refused for the
\* missing manifest
C36_Witness ==
    /\ last_op.op = "enrich" /\ last_op.raised = "CorpusUpdateError"
    /\ manifest = None
    /\ \E i \in DOMAIN last_op.sources : Truthy(last_op.sources[i].content)


ListedFiles ==
    IF manifest = None THEN {}
    ELSE {manifest[1].pages[i].filename : i \in DOMAIN manifest[1].pages}

\* C38: in every state of a build or of an enrichment, the states between
\* two file writes included, every page the manifest on disk lists has its
\* file in the directory; the step that writes the manifest is taken when no
\* page write is left.
C38_ManifestListsWrittenFiles ==
    /\ [](ListedFiles \subseteq DOMAIN files)
    /\ [][(manifest' # manifest) => pending.writes = <<>>]_vars

\* an enrichment has written one of its two new pages: the manifest on disk is
\* still the one of the build
C38_Witness ==
    /\ last_op.op = "enrich" /\ last_op.added = 2
    /\ Len(pending.writes) = 1 /\ pending.manifest_due
    /\ manifest # None
    /\ Cardinality(DOMAIN files) = Len(manifest[1].pages) + 1


(***************************************************************************)
(* C39                                                                      *)
(***************************************************************************)
\* the crawled pages the build wrote before its i-th domain crawl
RECURSIVE WrittenBefore(_)
WrittenBefore(i) == IF i <= 1 THEN 0 ELSE WrittenBefore(i - 1) + crawl_log[i - 1].written

CrawledPagesWritten == WrittenBefore(Len(crawl_log) + 1)

\* the pages of the manifest that came from a crawl of the build
CrawledPagesListed ==
    Cardinality({i \in DOMAIN manifest[1].pages : manifest[1].pages[i].source_type = "crawled"})

SearchRunCall ==
    /\ last_call.fn = "firecrawl_search.run"
    /\ last_call.args.query # <<>>
    /\ last_call.args.env.firecrawl

C40_NoRetriesReached ==
    /\ SearchRunCall
    /\ last_call.args.retries = 0
    /\ last_call.result.raised = "FirecrawlSearchError"
    /\ last_call.result.calls = 0

====
